---- MODULE Spec2Model ----
(***************************************************************************)
(* A model of the WebGraph workflow engine:                               *)
(*   src/src/web_graph/graph/web_graph.py        (WebGraph: builder, run)  *)
(*   src/src/web_graph/graph/nodes/action_node.py (ActionNode)             *)
(*                                                                         *)
(* Python's None is the empty set for an optional integer or ActionNode    *)
(* (a ceiling is {} or {n}) and the string NoNode for an optional node id. *)
(* Node names are interchangeable, so the k-th distinct name a caller uses *)
(* is NodeNames[k].                                                        *)
(***************************************************************************)
EXTENDS Integers, Sequences, FiniteSets, TLC

VARIABLES
    nodes,                 \* WebGraph._nodes: id -> [node, edge_nodes]
    graph_current_node,    \* WebGraph._current_node (the builder cursor, an ActionNode)
    default_max_retries,   \* WebGraph._settings.fallback_action_max_retries
    state,                 \* WebGraph._settings.state, the shared dict
    call,                  \* the last builder call and how it ended
    status,                \* BUILD, RUNNING, DONE, FAILED (retry exhaustion), CRASHED
    current_node,          \* run(): current_node (id of the WebGraphNode, or NoNode)
    current_edge_nodes,    \* run(): current_edge_nodes (ids, in insertion order)
    current_retries,       \* run(): current_retries
    error,                 \* the exception run() ended with
    action_calls,          \* id -> number of ActionNode.run calls in this run
    fallback_calls,        \* id -> number of ActionNode.run_fallback calls in this run
    last_step,             \* what the last loop iteration of run() did
    action_saw,            \* the dict the last action callback was given, as it found it
    log,                   \* the callbacks run() invoked so far, in order, with results
    awaiting,              \* the coroutine callback run() is suspended in, if any
    first_run,             \* an earlier run of the same workflow, kept for comparison
    adapter,               \* one call of ActionNode._call_function: callback, kwargs, result
    element,               \* an Element: its settings and the CSS selector built from them
    given_nodes            \* what a caller passed to ActionNode(...), and what it raised

vars == <<nodes, graph_current_node, default_max_retries, state, call, status,
          current_node, current_edge_nodes, current_retries, error,
          action_calls, fallback_calls, last_step, action_saw, log, awaiting,
          first_run, adapter, element, given_nodes>>

builder_vars == <<nodes, graph_current_node, call>>
graph_vars == <<nodes, graph_current_node, default_max_retries, state, call, status,
                current_node, current_edge_nodes, current_retries, error,
                action_calls, fallback_calls, last_step, action_saw, log, awaiting,
                first_run>>
run_vars == <<status, current_node, current_edge_nodes, current_retries, error,
              action_calls, fallback_calls, last_step, action_saw, state, log, awaiting>>

----------------------------------------------------------------------------
(* Bounds *)

\* The largest retry ceiling a node or the graph is given.
MaxCeil == 2

\* run() counts retries without limit when no ceiling applies; the model stops
\* counting one past the largest ceiling.
RetryCap == MaxCeil + 1

\* The names the caller gives to nodes, in the order of first use.
NodeNames == <<"N1", "N2", "N3">>

----------------------------------------------------------------------------
(* Values *)

NoNode == "None"
START == "START"

NoneInt == {}
Omitted == {}
Some(n) == {n}
Val(opt) == CHOOSE v \in opt : TRUE

\* A retry ceiling is int | None with no constraint (action_node.py:28,
\* web_graph.py settings): None, 0 or a positive integer.  A negative ceiling
\* passes every test of run() that 0 passes.
Ceilings == {NoneInt} \cup {Some(n) : n \in 0..MaxCeil}

\* The callbacks a caller gives to a node.  A condition is absent ("none"),
\* lambda: False ("false") or lambda state: state["ready"] ("ready").  A
\* fallback is absent ("none") or a recovery attempt that may make the page
\* ready ("fix").  The action of a node records the node in state["last"]
\* ("record").  The action of the START node is lambda: None ("nothing").
ActionKinds == {"record"}
CondKinds == {"none", "false", "ready"}
FallbackKinds == {"none", "fix"}

\* The same callbacks written as coroutine functions (async def).
AsyncCallbacks == {"async_record", "async_false", "async_ready", "async_fix"}

IsAsync(f) == f \in AsyncCallbacks

AsyncOf(f) ==
    CASE f = "record" -> "async_record"
      [] f = "false" -> "async_false"
      [] f = "ready" -> "async_ready"
      [] f = "fix" -> "async_fix"
      [] OTHER -> f

SyncOf(f) ==
    CASE f = "async_record" -> "record"
      [] f = "async_false" -> "false"
      [] f = "async_ready" -> "ready"
      [] f = "async_fix" -> "fix"
      [] OTHER -> f

\* A callback that fails: an action that writes state["last"] and then raises,
\* a condition or a fallback that raises.  The condition "raise_if_ready" is
\* false while state["ready"] is false and raises once it is true.
Raising == "raise"

AllNames == {START} \cup {NodeNames[i] : i \in 1..Len(NodeNames)}

\* ActionNode.__init__
ActionNode(name, action, condition, fallback_action, max_retries) ==
    [name |-> name, action |-> action, condition |-> condition,
     fallback_action |-> fallback_action,
     fallback_action_max_retries |-> max_retries]

\* ActionNode(name, action): the minimal node of add_step and of the START node.
MinimalNode(name) == ActionNode(name, "record", "none", "none", NoneInt)

\* ActionNode.id: the node's lookup key, which is its name.
NodeId(node) == node.name

\* WebGraphNode(node=node)
WebGraphNode(node) == [node |-> node, edge_nodes |-> <<>>]

\* Line 71: ActionNode("START", lambda: None)
StartNode == ActionNode(START, "nothing", "none", "none", NoneInt)

InitialState == [ready |-> FALSE, last |-> "init"]

----------------------------------------------------------------------------
(* ActionNode *)

\* What the body of a callback does when it runs: its result and the dict as
\* it leaves it.  A condition reads the dict, an action or fallback returns None
\* ("done"); a failing callback ends in "raise".
ConditionBody(f, st) ==
    [result |-> IF SyncOf(f) = "ready" THEN (IF st.ready THEN "true" ELSE "false")
                ELSE IF SyncOf(f) = "false" THEN "false"
                ELSE IF f = "raise_if_ready" THEN (IF st.ready THEN "raise" ELSE "false")
                ELSE "raise",
     state |-> st]

ActionBody(node, st) ==
    [result |-> IF node.action = Raising THEN "raise" ELSE "done",
     state |-> IF node.action = "nothing" THEN st ELSE [st EXCEPT !.last = node.name]]

FallbackBody(node, st) ==
    IF node.fallback_action = Raising THEN {[result |-> "raise", state |-> st]}
    ELSE {[result |-> "done", state |-> st],
          [result |-> "done", state |-> [st EXCEPT !.ready = TRUE]]}

\* Line 149, f(**kwargs): a function has run its body when the call returns; a
\* coroutine function returns a coroutine whose body has not started.  The
\* coroutine callbacks of this model hand control to the event loop when they
\* are awaited and run their body when they are resumed.
Call(f, before, body) ==
    [awaitable |-> IsAsync(f), before |-> before,
     result |-> body.result, state |-> body.state]

\* Lines 150-156 without the await: the coroutine is handed back as it is.
CallFunctionNoAwait(function_result) ==
    IF function_result.awaitable
    THEN [result |-> "pending", state |-> function_result.before]
    ELSE [result |-> function_result.result, state |-> function_result.state]

\* ActionNode._call_function, lines 149-156: an awaitable result is awaited, so
\* its body has run to the end when _call_function returns.
CallFunction(function_result) ==
    IF function_result.awaitable
    THEN [result |-> function_result.result, state |-> function_result.state]
    ELSE [result |-> function_result.result, state |-> function_result.state]

\* Line 112, if condition: a coroutine object is true like any object.
Truthy(result) == result \in {"true", "pending"}

\* What the condition callback of a node hands to run_condition.
ConditionResult(node, st) ==
    CallFunction(Call(node.condition, st, ConditionBody(node.condition, st))).result

\* ActionNode.run_condition
RunCondition(node, st) ==
    IF node.condition = "none" THEN TRUE
    ELSE Truthy(ConditionResult(node, st))

\* ActionNode.run: the result of the action callback and the dict it leaves.
RunAction(node, st) == CallFunction(Call(node.action, st, ActionBody(node, st)))

\* ActionNode.run_fallback: the results the fallback callback can have and the
\* dict it leaves; without a fallback nothing is called.
RunFallback(node, st) ==
    IF node.fallback_action = "none" THEN {[result |-> "skipped", state |-> st]}
    ELSE {CallFunction(Call(node.fallback_action, st, body)) :
              body \in FallbackBody(node, st)}

----------------------------------------------------------------------------
(* WebGraph.__init__ *)

ZeroCalls == [n \in AllNames |-> 0]

NoError == [type |-> "none", node |-> NoNode, max_retries |-> NoneInt]

\* No earlier run is kept.
NoFirstRun ==
    [status |-> "none", error |-> NoError, log |-> <<>>,
     nodes |-> (START :> WebGraphNode(StartNode))]

\* Where run() stands in its loop body: between callbacks ("none"), or suspended
\* at one of its awaits in a coroutine callback: the condition (line 172) or the
\* action (line 177) of the edge node with that index, or the fallback of the
\* current node (line 208).
NotAwaiting == [at |-> "none", index |-> 0]
Awaiting(at, index) == [at |-> at, index |-> index]

\* No call of the adapter and no Element are under study.
NoCallback == [parameters |-> <<>>, body |-> "none", ready |-> FALSE]
NoAdapterCall == [f |-> NoCallback, called |-> FALSE, kwargs |-> {}, bound |-> <<>>,
                  awaiting |-> FALSE, result |-> "none"]
NoSettings == [tag |-> {}, id |-> {}, name |-> {}, class_names |-> {}, attrs |-> {},
               index |-> {}, xpath |-> {}]
NoRetrieve == [called |-> FALSE, at_wait |-> 0, at_find |-> 0, outcome |-> "none",
               returned |-> {}]
NoElement == [settings |-> NoSettings, built |-> FALSE, selector |-> "",
              args |-> NoSettings, constructed |-> FALSE, raised |-> "none",
              has_settings |-> FALSE, retrieve |-> NoRetrieve]

\* No run over nodes with lists of callbacks is under study.
NoGivenNodes == [given |-> <<>>, error |-> "none"]

\* WebGraph.__init__: the graph as the constructor leaves it.
GraphInit ==
    /\ nodes = (START :> WebGraphNode(StartNode))
    /\ graph_current_node = StartNode
    /\ default_max_retries \in Ceilings
    /\ state = InitialState
    /\ call = [op |-> "none", node |-> NoNode, starting_node |-> NoNode, outcome |-> "none",
               returned |-> {}]
    /\ status = "BUILD"
    /\ current_node = NoNode
    /\ current_edge_nodes = <<>>
    /\ current_retries = 0
    /\ error = NoError
    /\ action_calls = ZeroCalls
    /\ fallback_calls = ZeroCalls
    /\ last_step = "none"
    /\ action_saw = InitialState
    /\ log = <<>>
    /\ awaiting = NotAwaiting
    /\ first_run = NoFirstRun

Init ==
    /\ GraphInit
    /\ adapter = NoAdapterCall
    /\ given_nodes = NoGivenNodes
    /\ element = NoElement

----------------------------------------------------------------------------
(* Builder API *)

IsRegistered(id) == id \in DOMAIN nodes

\* The outcome of add_edge_node(node, starting_node): the line that raises, or ok.
AddEdgeNodeOutcomeNoDuplicateCheck(node, starting_node) ==
    IF node.name = START THEN "ReservedName"
    ELSE IF starting_node = Omitted
         THEN IF IsRegistered(NodeId(graph_current_node)) THEN "ok"
              ELSE "AttributeError"
         ELSE IF IsRegistered(NodeId(Val(starting_node))) THEN "ok"
              ELSE "UnknownStartingNode"

AddEdgeNodeOutcomeNoNameChecks(node, starting_node) ==
    IF node.name # START /\ IsRegistered(NodeId(node)) THEN "DuplicateNode"
    ELSE IF starting_node = Omitted
         THEN IF IsRegistered(NodeId(graph_current_node)) THEN "ok"
              ELSE "AttributeError"
         ELSE IF IsRegistered(NodeId(Val(starting_node))) THEN "ok"
              ELSE "UnknownStartingNode"

\* starting_node is Omitted (None) or Some(an ActionNode).
AddEdgeNodeOutcome(node, starting_node) ==
    IF IsRegistered(NodeId(node)) THEN "DuplicateNode"
    ELSE IF node.name = START THEN "ReservedName"
    ELSE IF starting_node = Omitted
         THEN IF IsRegistered(NodeId(graph_current_node)) THEN "ok"
              ELSE "AttributeError"
         ELSE IF IsRegistered(NodeId(Val(starting_node))) THEN "ok"
              ELSE "UnknownStartingNode"

\* The id of the registry entry the new node is attached to.
StartingId(starting_node) ==
    IF starting_node = Omitted THEN NodeId(graph_current_node)
    ELSE NodeId(Val(starting_node))

\* The registry after a successful add_edge_node.
Attach(node, parent_id) ==
    LET appended == [nodes EXCEPT ![parent_id].edge_nodes = Append(@, NodeId(node))]
    IN  [id \in DOMAIN nodes \cup {NodeId(node)} |->
            IF id = NodeId(node) THEN WebGraphNode(node) ELSE appended[id]]

ArgName(x) == IF x = Omitted THEN NoNode ELSE Val(x).name

\* What the call hands back: add_step returns the node it made (line 137),
\* add_edge_node returns None, a call that raises returns nothing.
Returned(op, node, outcome) ==
    IF op = "add_step" /\ outcome = "ok" THEN Some(node) ELSE {}

\* Lines 97-122: the call either raises and changes nothing, or attaches the node.
AddEdgeNodeEffectRegistersBeforeLookup(op, node, starting_node) ==
    LET outcome == AddEdgeNodeOutcome(node, starting_node) IN
    /\ call' = [op |-> op, node |-> node.name,
                starting_node |-> ArgName(starting_node), outcome |-> outcome,
                returned |-> Returned(op, node, outcome)]
    /\ IF outcome = "ok"
       THEN /\ nodes' = Attach(node, StartingId(starting_node))
            /\ graph_current_node' = node
       ELSE IF outcome = "UnknownStartingNode"
       THEN /\ nodes' = [id \in DOMAIN nodes \cup {NodeId(node)} |->
                            IF id = NodeId(node) THEN WebGraphNode(node) ELSE nodes[id]]
            /\ UNCHANGED graph_current_node
       ELSE UNCHANGED <<nodes, graph_current_node>>

AddEdgeNodeEffect(op, node, starting_node) ==
    LET outcome == AddEdgeNodeOutcome(node, starting_node) IN
    /\ call' = [op |-> op, node |-> node.name,
                starting_node |-> ArgName(starting_node), outcome |-> outcome,
                returned |-> Returned(op, node, outcome)]
    /\ IF outcome = "ok"
       THEN /\ nodes' = Attach(node, StartingId(starting_node))
            /\ graph_current_node' = node
       ELSE UNCHANGED <<nodes, graph_current_node>>

\* WebGraph.add_edge_node
add_edge_node(node, starting_node) ==
    /\ status = "BUILD"
    /\ AddEdgeNodeEffect("add_edge_node", node, starting_node)
    /\ UNCHANGED <<default_max_retries, run_vars, first_run, adapter, element, given_nodes>>

\* WebGraph.add_step
add_step(name) ==
    /\ status = "BUILD"
    /\ AddEdgeNodeEffect("add_step", MinimalNode(name), Some(graph_current_node))
    /\ UNCHANGED <<default_max_retries, run_vars, first_run, adapter, element, given_nodes>>

\* WebGraph.set_current_node: the ValueError is built and dropped, never raised.
set_current_node(node) ==
    /\ status = "BUILD"
    /\ graph_current_node' = node
    /\ call' = [op |-> "set_current_node", node |-> node.name,
                starting_node |-> NoNode, outcome |-> "ok", returned |-> {}]
    /\ UNCHANGED <<nodes, default_max_retries, run_vars, first_run, adapter, element, given_nodes>>

----------------------------------------------------------------------------
(* WebGraph.run *)

\* Lines 162-165: the locals of run() before its loop.
run_start ==
    /\ status = "BUILD"
    /\ status' = "RUNNING"
    /\ current_node' = NoNode
    /\ current_edge_nodes' = nodes[START].edge_nodes
    /\ current_retries' = 0
    /\ UNCHANGED <<error, action_calls, fallback_calls, last_step, action_saw, state,
                   log, awaiting, builder_vars, default_max_retries, first_run, adapter,
                   element, given_nodes>>

\* Lines 171-181: the index of the first edge node whose condition is true, or 0.
FirstMatchLast(edge_nodes, st) ==
    LET hits == {i \in 1..Len(edge_nodes) : RunCondition(nodes[edge_nodes[i]].node, st)}
    IN  IF hits = {} THEN 0 ELSE CHOOSE i \in hits : \A j \in hits : i >= j

FirstMatch(edge_nodes, st) ==
    LET hits == {i \in 1..Len(edge_nodes) : RunCondition(nodes[edge_nodes[i]].node, st)}
    IN  IF hits = {} THEN 0 ELSE CHOOSE i \in hits : \A j \in hits : i <= j

\* Lines 173, 177, 209: a callback is given self._settings.state itself, so what it
\* wrote is what the graph holds afterwards.
CallbackWritesToCopy(shared, written) == shared

CallbackWrites(shared, written) == written

\* Lines 183-201: the ceiling that ends the run for this node at this count, if any.
CeilingReachedGraphFirst(node, retries) ==
    IF default_max_retries # NoneInt
    THEN IF retries >= Val(default_max_retries) THEN default_max_retries ELSE NoneInt
    ELSE IF node.fallback_action_max_retries # NoneInt
            /\ retries >= Val(node.fallback_action_max_retries)
         THEN node.fallback_action_max_retries ELSE NoneInt

CeilingReachedStrict(node, retries) ==
    IF node.fallback_action_max_retries # NoneInt
    THEN IF retries > Val(node.fallback_action_max_retries)
         THEN node.fallback_action_max_retries ELSE NoneInt
    ELSE IF default_max_retries # NoneInt /\ retries > Val(default_max_retries)
         THEN default_max_retries ELSE NoneInt

CeilingReachedNodeOnly(node, retries) ==
    IF node.fallback_action_max_retries # NoneInt
       /\ retries >= Val(node.fallback_action_max_retries)
    THEN node.fallback_action_max_retries ELSE NoneInt

CeilingReachedNoneIsCap(node, retries) ==
    IF node.fallback_action_max_retries # NoneInt
    THEN IF retries >= Val(node.fallback_action_max_retries)
         THEN node.fallback_action_max_retries ELSE NoneInt
    ELSE IF default_max_retries # NoneInt
         THEN IF retries >= Val(default_max_retries) THEN default_max_retries ELSE NoneInt
         ELSE IF retries >= MaxCeil THEN Some(MaxCeil) ELSE NoneInt

CeilingReached(node, retries) ==
    IF node.fallback_action_max_retries # NoneInt
    THEN IF retries >= Val(node.fallback_action_max_retries)
         THEN node.fallback_action_max_retries ELSE NoneInt
    ELSE IF default_max_retries # NoneInt /\ retries >= Val(default_max_retries)
         THEN default_max_retries ELSE NoneInt

\* Line 205: the edge nodes of the node that was executed.
NextEdgeNodesSame(cur) == current_edge_nodes

NextEdgeNodes(cur) == nodes[cur].edge_nodes

\* Line 214: the end of the graph is a node without edge nodes.
EndFound(edge_nodes) == Len(edge_nodes) = 0

\* Lines 171-175: the index of the first edge node whose condition raises before
\* any edge node matched, or 0.
FirstRaise(edge_nodes, st) ==
    LET i == FirstMatch(edge_nodes, st)
        raises == {j \in 1..Len(edge_nodes) :
                      /\ i = 0 \/ j < i
                      /\ nodes[edge_nodes[j]].node.condition # "none"
                      /\ ConditionResult(nodes[edge_nodes[j]].node, st) = "raise"}
    IN  IF raises = {} THEN 0 ELSE CHOOSE j \in raises : \A k \in raises : j <= k

LogEntry(kind, id, result) == [kind |-> kind, node |-> id, result |-> result]

\* The condition callbacks the scan invoked: those of the first n edge nodes
\* that have a condition, in order.
ScanLog(edge_nodes, st, n) ==
    LET entries == [j \in 1..n |->
                       LogEntry("condition", edge_nodes[j],
                                ConditionResult(nodes[edge_nodes[j]].node, st))]
        HasCondition(e) == nodes[e.node].node.condition # "none"
    IN  SelectSeq(entries, HasCondition)

\* A run() that catches what a callback raises and goes on.
CallbackRaisedAndCaught(id) ==
    /\ status' = "RUNNING"
    /\ last_step' = "callback_raise"
    /\ UNCHANGED <<error, current_node, current_edge_nodes, current_retries>>

\* A callback raised: nothing in run() catches it, so run() ends with it.
CallbackRaised(id) ==
    /\ status' = "RAISED"
    /\ error' = [type |-> "CallbackError", node |-> id, max_retries |-> NoneInt]
    /\ last_step' = "callback_raise"
    /\ UNCHANGED <<current_node, current_edge_nodes, current_retries>>

\* Line 179: the retry counter after the scan; a match sets it to 0.
RetriesAfterScanCumulative(executed, retries) == retries

RetriesAfterScan(executed, retries) == IF executed THEN 0 ELSE retries

\* Line 208: the node whose fallback runs when no edge node matched.
FallbackOwnerFirstEdge(cur, edge_nodes) == edge_nodes[1]

FallbackOwner(cur, edge_nodes) == cur

\* Line 211: the retry counter after a fallback.
RetriesAfterFallbackUncounted(retries) == retries

RetriesAfterFallback(retries) == retries + 1

\* Line 151, await function_result: awaiting the coroutine of a callback
\* suspends run() until the event loop resumes it.
Suspends(f) == IsAsync(f)

\* Lines 163 and 205 bind current_edge_nodes to the edge_nodes list of START or
\* of the current node: the list itself, not a copy of it.
FrontierOwner == IF current_node = NoNode THEN START ELSE current_node

\* Lines 168-214: the loop of run() from where it stands, the head of the loop
\* or the callback it was suspended in, to the next coroutine callback it has
\* to await or to the end of the iteration.  With callbacks that are functions
\* this is one whole iteration.
run_iteration ==
    /\ status = "RUNNING"
    /\ LET at == awaiting.at
           scanning == at \in {"none", "condition"}
           from == IF at = "condition" THEN awaiting.index ELSE 1
           ahead == {j \in from..Len(current_edge_nodes) :
                        /\ Suspends(nodes[current_edge_nodes[j]].node.condition)
                        /\ ~(at = "condition" /\ j = from)}
           stop == IF ahead = {} THEN 0 ELSE CHOOSE j \in ahead : \A k \in ahead : j <= k
           scope == IF ~scanning THEN <<>>
                    ELSE SubSeq(current_edge_nodes, from,
                                IF stop = 0 THEN Len(current_edge_nodes) ELSE stop - 1)
           i == FirstMatch(scope, state)
           r == FirstRaise(scope, state)
           executed == at = "action" \/ i > 0
           scanned == IF r > 0 THEN r ELSE IF i > 0 THEN i ELSE Len(scope)
           scan_log == ScanLog(scope, state, scanned)
           place == IF at = "action" THEN awaiting.index ELSE from + i - 1
           cur == IF executed THEN current_edge_nodes[place] ELSE current_node
           await_condition == scanning /\ i = 0 /\ stop > 0
           await_action == scanning /\ i > 0 /\ Suspends(nodes[cur].node.action)
           retries == RetriesAfterScan(executed, current_retries)
           action == IF executed THEN RunAction(nodes[cur].node, state)
                     ELSE [result |-> "skipped", state |-> state]
           st1 == IF executed THEN CallbackWrites(state, action.state) ELSE state
           log1 == IF executed
                   THEN Append(log \o scan_log, LogEntry("action", cur, action.result))
                   ELSE log \o scan_log
       IN
       IF r > 0
       THEN \* a condition raised during the scan
            /\ CallbackRaised(scope[r])
            /\ log' = log \o scan_log
            /\ awaiting' = NotAwaiting
            /\ UNCHANGED <<state, action_calls, action_saw, fallback_calls>>
       ELSE IF await_condition \/ await_action
       THEN \* run() is suspended in a coroutine condition or action
            /\ awaiting' = IF await_action THEN Awaiting("action", place)
                           ELSE Awaiting("condition", stop)
            /\ log' = log \o scan_log
            /\ last_step' = "await"
            /\ UNCHANGED <<state, status, error, current_node, current_edge_nodes,
                           current_retries, action_calls, action_saw, fallback_calls>>
       ELSE
       /\ action_calls' = IF executed THEN [action_calls EXCEPT ![cur] = @ + 1]
                          ELSE action_calls
       /\ action_saw' = IF executed THEN state ELSE action_saw
       /\ IF action.result = "raise"
          THEN \* the action raised on line 177
               /\ CallbackRaised(cur)
               /\ state' = st1
               /\ log' = log1
               /\ awaiting' = NotAwaiting
               /\ UNCHANGED fallback_calls
          ELSE
          /\ current_node' = cur
          /\ IF cur = NoNode
             THEN \* current_node is None: current_node.node raises AttributeError
                  /\ status' = "CRASHED"
                  /\ error' = [type |-> "AttributeError", node |-> NoNode,
                               max_retries |-> NoneInt]
                  /\ state' = st1
                  /\ log' = log1
                  /\ last_step' = "raise"
                  /\ awaiting' = NotAwaiting
                  /\ UNCHANGED <<current_edge_nodes, current_retries, fallback_calls>>
             ELSE LET node == nodes[cur].node
                      reached == IF at = "fallback" THEN NoneInt
                                 ELSE CeilingReached(node, retries) IN
                  IF reached # NoneInt
                  THEN /\ status' = "FAILED"
                       /\ error' = [type |-> "MaxFallbackRetriesReachedError",
                                    node |-> NodeId(node), max_retries |-> reached]
                       /\ state' = st1
                       /\ log' = log1
                       /\ current_retries' = retries
                       /\ last_step' = IF executed THEN "match_raise" ELSE "raise"
                       /\ awaiting' = NotAwaiting
                       /\ UNCHANGED <<current_edge_nodes, fallback_calls>>
                  ELSE IF executed
                  THEN /\ current_edge_nodes' = NextEdgeNodes(cur)
                       /\ status' = IF EndFound(NextEdgeNodes(cur)) THEN "DONE"
                                    ELSE "RUNNING"
                       /\ state' = st1
                       /\ log' = log1
                       /\ current_retries' = retries
                       /\ last_step' = "match"
                       /\ awaiting' = NotAwaiting
                       /\ UNCHANGED <<error, fallback_calls>>
                  ELSE /\ retries < RetryCap
                       /\ LET owner == FallbackOwner(cur, current_edge_nodes) IN
                          IF at # "fallback" /\ Suspends(nodes[owner].node.fallback_action)
                          THEN \* run() is suspended in a coroutine fallback
                               /\ awaiting' = Awaiting("fallback", 0)
                               /\ state' = st1
                               /\ log' = log1
                               /\ last_step' = "await"
                               /\ UNCHANGED <<status, error, current_edge_nodes,
                                              current_retries, fallback_calls>>
                          ELSE
                          \E fallback \in RunFallback(nodes[owner].node, st1) :
                            /\ state' = CallbackWrites(st1, fallback.state)
                            /\ log' = IF fallback.result = "skipped" THEN log1
                                      ELSE Append(log1, LogEntry("fallback", owner,
                                                                 fallback.result))
                            /\ fallback_calls' = [fallback_calls EXCEPT ![owner] = @ + 1]
                            /\ awaiting' = NotAwaiting
                            /\ IF fallback.result = "raise"
                               THEN \* the fallback raised on line 208
                                    /\ status' = "RAISED"
                                    /\ error' = [type |-> "CallbackError", node |-> owner,
                                                 max_retries |-> NoneInt]
                                    /\ last_step' = "callback_raise"
                                    /\ UNCHANGED <<current_edge_nodes, current_retries>>
                               ELSE /\ current_retries' = RetriesAfterFallback(retries)
                                    /\ status' = IF EndFound(current_edge_nodes)
                                                 THEN "DONE" ELSE "RUNNING"
                                    /\ last_step' = "fallback"
                                    /\ UNCHANGED <<current_edge_nodes, error>>
    /\ UNCHANGED <<builder_vars, default_max_retries, first_run, adapter, element, given_nodes>>

\* Another task of the event loop, which runs only while run() is suspended in
\* a coroutine callback, writes to the state dict the graph was given ...
other_task_write ==
    /\ status = "RUNNING"
    /\ awaiting # NotAwaiting
    /\ state' = [state EXCEPT !.ready = ~@]
    /\ UNCHANGED <<builder_vars, default_max_retries, status, current_node,
                   current_edge_nodes, current_retries, error, action_calls,
                   fallback_calls, last_step, action_saw, log, awaiting, first_run,
                   adapter, element, given_nodes>>

\* ... or calls add_edge_node on the graph: a node appended to the list that
\* current_edge_nodes refers to is in the list the scan goes through.
other_task_add_edge_node(node, starting_node) ==
    /\ status = "RUNNING"
    /\ awaiting # NotAwaiting
    /\ AddEdgeNodeEffect("add_edge_node", node, starting_node)
    /\ current_edge_nodes' = nodes'[FrontierOwner].edge_nodes
    /\ UNCHANGED <<default_max_retries, state, status, current_node, current_retries,
                   error, action_calls, fallback_calls, last_step, action_saw, log,
                   awaiting, first_run, adapter, element, given_nodes>>

----------------------------------------------------------------------------
(* The caller *)

UsedNames == {NodeNames[i] : i \in {j \in 1..Len(NodeNames) : NodeNames[j] \in DOMAIN nodes}}

\* The first name of NodeNames no registered node has, if any is left.
FreshNames ==
    LET free == {i \in 1..Len(NodeNames) : NodeNames[i] \notin DOMAIN nodes}
    IN  IF free = {} THEN {} ELSE {NodeNames[CHOOSE i \in free : \A j \in free : i <= j]}

\* The nodes a caller builds a workflow from: every combination of callbacks and
\* ceiling, under a name not used yet.
WorkflowNodes ==
    {ActionNode(n, a, c, f, m) : n \in FreshNames, a \in ActionKinds, c \in CondKinds,
                                 f \in FallbackKinds, m \in Ceilings}

RegisteredNodes == {nodes[id].node : id \in DOMAIN nodes}

StartingNodes == {Omitted} \cup {Some(n) : n \in RegisteredNodes}

\* A caller that builds a workflow with well-formed calls and runs it.
Next ==
    \/ \E node \in WorkflowNodes, starting_node \in StartingNodes :
           add_edge_node(node, starting_node)
    \/ \E name \in FreshNames : add_step(name)
    \/ run_start
    \/ run_iteration

Spec == Init /\ [][Next]_vars

\* A caller that exercises the builder API with every kind of argument: minimal
\* nodes under a registered name, the root's name or a new name, attached to
\* nothing, to a registered node or to a node that is not in the graph.
BuilderNames == {START} \cup UsedNames \cup FreshNames

BuilderNodes ==
    {MinimalNode(n) : n \in BuilderNames}
        \cup {ActionNode(n, "record", "false", "none", NoneInt) : n \in UsedNames}

BuilderStartingNodes == {Omitted} \cup {Some(MinimalNode(n)) : n \in BuilderNames}

BuilderNext ==
    \/ \E node \in BuilderNodes, starting_node \in BuilderStartingNodes :
           add_edge_node(node, starting_node)
    \/ \E name \in BuilderNames : add_step(name)
    \/ \E name \in BuilderNames : set_current_node(MinimalNode(name))
    \/ run_start
    \/ run_iteration

BuilderSpec == Init /\ [][BuilderNext]_vars

\* A caller that builds the workflow only with add_edge_node calls that omit the
\* starting node, and runs it.
ChainNext ==
    \/ \E node \in WorkflowNodes : add_edge_node(node, Omitted)
    \/ run_start
    \/ run_iteration

ChainSpec == Init /\ [][ChainNext]_vars

\* A caller that builds the workflow only with add_step calls, some of them
\* with a name that is taken, and runs it.
StepNext ==
    \/ \E name \in BuilderNames : add_step(name)
    \/ run_start
    \/ run_iteration

StepSpec == Init /\ [][StepNext]_vars

\* A caller whose callbacks can fail: actions, conditions and fallbacks that
\* raise, in a graph whose retry ceiling is the graph default.
RaiseNodes ==
    {ActionNode(n, a, c, f, NoneInt) :
        n \in FreshNames, a \in {"record", Raising},
        c \in {"none", Raising, "raise_if_ready"}, f \in {"none", "fix", Raising}}

RaiseNext ==
    \/ \E node \in RaiseNodes, starting_node \in StartingNodes :
           add_edge_node(node, starting_node)
    \/ run_start
    \/ run_iteration

RaiseSpec == Init /\ [][RaiseNext]_vars

\* The ways run() ends.
Terminal == {"DONE", "FAILED", "CRASHED", "RAISED"}

CallbackFields == {"action", "condition", "fallback_action"}

\* The node with its callbacks of the given fields written as coroutine functions.
AsyncNode(node, fields) ==
    [node EXCEPT !.action = IF "action" \in fields THEN AsyncOf(@) ELSE @,
                 !.condition = IF "condition" \in fields THEN AsyncOf(@) ELSE @,
                 !.fallback_action = IF "fallback_action" \in fields THEN AsyncOf(@)
                                     ELSE @]

\* The same graph with the callbacks of some nodes, or of some kinds, asynchronous.
AsyncVariant(registry, ids, fields) ==
    [id \in DOMAIN registry |->
        IF id \in ids THEN [registry[id] EXCEPT !.node = AsyncNode(@, fields)]
        ELSE registry[id]]

AsyncVariants(registry) ==
    {AsyncVariant(registry, ids, CallbackFields) : ids \in SUBSET (DOMAIN registry \ {START})}
        \cup {AsyncVariant(registry, DOMAIN registry \ {START}, fields) :
                  fields \in SUBSET CallbackFields}

\* A second WebGraph, built by the same calls from the nodes of the given
\* registry, is run from the start with a fresh state dict; its cursor is the
\* node it was given last.  How the run that just ended went is kept.
replay(registry) ==
    /\ status \in Terminal
    /\ first_run = NoFirstRun
    /\ first_run' = [status |-> status, error |-> error, log |-> log, nodes |-> nodes]
    /\ nodes' = registry
    /\ status' = "RUNNING"
    /\ current_node' = NoNode
    /\ current_edge_nodes' = registry[START].edge_nodes
    /\ current_retries' = 0
    /\ error' = NoError
    /\ action_calls' = ZeroCalls
    /\ fallback_calls' = ZeroCalls
    /\ last_step' = "none"
    /\ action_saw' = InitialState
    /\ state' = InitialState
    /\ log' = <<>>
    /\ awaiting' = NotAwaiting
    /\ graph_current_node' = IF NodeId(graph_current_node) \in DOMAIN registry
                             THEN registry[NodeId(graph_current_node)].node
                             ELSE graph_current_node
    /\ UNCHANGED <<call, default_max_retries, adapter, element, given_nodes>>

\* A caller that builds a workflow of synchronous callbacks, runs it, and runs
\* it a second time, as it is or with callbacks replaced by asynchronous ones.
ReplayNodes ==
    {ActionNode(n, a, c, f, NoneInt) :
        n \in FreshNames, a \in ActionKinds, c \in CondKinds, f \in FallbackKinds}

ReplayNext ==
    \/ \E node \in ReplayNodes, starting_node \in StartingNodes :
           add_edge_node(node, starting_node)
    \/ run_start
    \/ run_iteration
    \/ \E registry \in AsyncVariants(nodes) : replay(registry)

ReplaySpec == Init /\ [][ReplayNext]_vars

\* A caller that builds a workflow some of whose callbacks are coroutine
\* functions and runs it in an event loop that has another task: while run() is
\* suspended in a callback, that task writes to the state dict and adds nodes
\* to the graph.
ConcurrentNodes ==
    {ActionNode(n, a, c, f, NoneInt) :
        n \in FreshNames, a \in {"record", "async_record"},
        c \in {"none", "ready", "async_false", "async_ready"}, f \in {"none", "async_fix"}}

ConcurrentNext ==
    \/ \E node \in ConcurrentNodes, starting_node \in StartingNodes :
           add_edge_node(node, starting_node)
    \/ run_start
    \/ run_iteration
    \/ other_task_write
    \/ \E node \in ConcurrentNodes, starting_node \in StartingNodes :
           other_task_add_edge_node(node, starting_node)

ConcurrentSpec == Init /\ [][ConcurrentNext]_vars

----------------------------------------------------------------------------
(* ActionNode._call_function on its own *)

\* The two objects the adapter can hand to a callback.
Driver == "DRIVER"
StateDict == "STATE"

\* The names a callback declares: driver and state, and a parameter of its own
\* that has a default value.
DeclaredNames == {"driver", "state", "timeout"}

\* The signatures of the callbacks: the declared names in every order.
Signatures ==
    {s \in UNION {[1..n -> DeclaredNames] : n \in 0..Cardinality(DeclaredNames)} :
        \A i, j \in 1..Len(s) : s[i] = s[j] => i = j}

ParameterNames(function_parameters) ==
    {function_parameters[k] : k \in 1..Len(function_parameters)}

\* Arguments passed by position: the driver first, the state second.
KwargsByPosition(function_parameters) ==
    (IF Len(function_parameters) >= 1
     THEN {<<function_parameters[1], Driver>>} ELSE {})
        \cup (IF Len(function_parameters) >= 2
              THEN {<<function_parameters[2], StateDict>>} ELSE {})

\* Lines 142-147: the keyword arguments, as pairs of name and object.
Kwargs(function_parameters) ==
    (IF "driver" \in ParameterNames(function_parameters)
     THEN {<<"driver", Driver>>} ELSE {})
        \cup (IF "state" \in ParameterNames(function_parameters)
              THEN {<<"state", StateDict>>} ELSE {})

\* Line 149, f(**kwargs): what each declared parameter is bound to in the call;
\* a parameter that gets no argument keeps its default.
Bind(function_parameters, kwargs) ==
    [k \in 1..Len(function_parameters) |->
        IF \E a \in kwargs : a[1] = function_parameters[k]
        THEN (CHOOSE a \in kwargs : a[1] = function_parameters[k])[2]
        ELSE "default"]

\* The callbacks the adapter is called with: a body that needs the state dict
\* belongs to a callback that declares state.
AdapterCallbacks ==
    {[parameters |-> s, body |-> b, ready |-> FALSE] :
        s \in Signatures, b \in {"false", "async_false", Raising}}
    \cup {[parameters |-> s, body |-> b, ready |-> r] :
            s \in {t \in Signatures : "state" \in ParameterNames(t)},
            b \in {"ready", "async_ready"}, r \in BOOLEAN}

AdapterInit ==
    /\ GraphInit
    /\ element = NoElement
    /\ given_nodes = NoGivenNodes
    /\ adapter \in {[NoAdapterCall EXCEPT !.f = f] : f \in AdapterCallbacks}

\* ActionNode._call_function(f, driver, state): the call up to line 149 and,
\* when f is a function, to its end; awaiting the coroutine of a coroutine
\* function on line 151 suspends the call, which has no result until it is
\* resumed and the body has run on the state dict as it is then.
call_function ==
    /\ ~adapter.called \/ adapter.awaiting
    /\ LET f == adapter.f
           kwargs == Kwargs(f.parameters)
           st == [InitialState EXCEPT !.ready = f.ready]
           function_result == Call(f.body, st, ConditionBody(f.body, st))
       IN  IF ~adapter.called /\ Suspends(f.body)
           THEN adapter' = [adapter EXCEPT !.called = TRUE,
                                           !.kwargs = kwargs,
                                           !.bound = Bind(f.parameters, kwargs),
                                           !.awaiting = TRUE]
           ELSE adapter' = [adapter EXCEPT !.called = TRUE,
                                           !.kwargs = kwargs,
                                           !.bound = Bind(f.parameters, kwargs),
                                           !.awaiting = FALSE,
                                           !.result = CallFunction(function_result).result]
    /\ UNCHANGED <<graph_vars, element, given_nodes>>

\* Another task of the event loop writes state["ready"] while the call is
\* suspended on line 151.
adapter_other_task_write ==
    /\ adapter.awaiting
    /\ adapter' = [adapter EXCEPT !.f.ready = ~@]
    /\ UNCHANGED <<graph_vars, element, given_nodes>>

AdapterNext ==
    \/ call_function
    \/ adapter_other_task_write

AdapterSpec == AdapterInit /\ [][AdapterNext]_vars

----------------------------------------------------------------------------
(* Element._build_css_selector *)

\* The settings of an Element.  An optional value is {} (None) or {v}; a list
\* of class names is a sequence, a dict of attributes the sequence of its
\* items in insertion order.  The index, which the selector does not use, and
\* the xpath are None here.
Tags == {{}, {""}, {"div"}}
Ids == {{}, {""}, {"main"}}
ElementNames == {{}, {"q"}}
ClassLists == {{}, {<<>>}, {<<"a">>}, {<<"a", "b">>}, {<<"b", "a">>}}
AttrDicts ==
    {{}, {<<>>}, {<<<<"k", "v">>>>}, {<<<<"k", "v">>, <<"t", "w">>>>},
     {<<<<"t", "w">>, <<"k", "v">>>>}}

ElementSettings ==
    [tag : Tags, id : Ids, name : ElementNames, class_names : ClassLists,
     attrs : AttrDicts, index : {NoneInt}, xpath : {{}}]

\* Python truth of an optional string and of an optional list or dict.
StrTruthy(opt) == opt # {} /\ Val(opt) # ""
ListTruthy(opt) == opt # {} /\ Len(Val(opt)) > 0

\* Line 238: "".join(f".{cls}" for cls in class_names)
RECURSIVE JoinClasses(_)
JoinClasses(class_names) ==
    IF Len(class_names) = 0 THEN ""
    ELSE ("." \o Head(class_names)) \o JoinClasses(Tail(class_names))

\* Lines 241-242: selector += f'[{k}="{v}"]' for every item.
RECURSIVE AppendAttrs(_, _)
AppendAttrs(selector, items) ==
    IF Len(items) = 0 THEN selector
    ELSE AppendAttrs(selector \o "[" \o Head(items)[1] \o "=\"" \o Head(items)[2] \o "\"]",
                     Tail(items))

\* A selector builder that puts the name before the id.
BuildCssSelectorNameFirst(settings) ==
    LET s0 == IF StrTruthy(settings.tag) THEN Val(settings.tag) ELSE "*"
        s1 == IF StrTruthy(settings.name)
              THEN s0 \o "[name=\"" \o Val(settings.name) \o "\"]" ELSE s0
        s2 == IF StrTruthy(settings.id) THEN s1 \o "#" \o Val(settings.id) ELSE s1
        s3 == IF ListTruthy(settings.class_names)
              THEN s2 \o JoinClasses(Val(settings.class_names)) ELSE s2
    IN  IF ListTruthy(settings.attrs) THEN AppendAttrs(s3, Val(settings.attrs)) ELSE s3

\* Element._build_css_selector, lines 229-244.
BuildCssSelector(settings) ==
    LET s0 == IF StrTruthy(settings.tag) THEN Val(settings.tag) ELSE "*"
        s1 == IF StrTruthy(settings.id) THEN s0 \o "#" \o Val(settings.id) ELSE s0
        s2 == IF StrTruthy(settings.name)
              THEN s1 \o "[name=\"" \o Val(settings.name) \o "\"]" ELSE s1
        s3 == IF ListTruthy(settings.class_names)
              THEN s2 \o JoinClasses(Val(settings.class_names)) ELSE s2
    IN  IF ListTruthy(settings.attrs) THEN AppendAttrs(s3, Val(settings.attrs)) ELSE s3

----------------------------------------------------------------------------
(* Element.__init__ and Element.retrieve *)

\* The largest index an Element is given, and the most elements of the page
\* that match its selector.
MaxIndex == 2
MaxMatches == 3

\* The arguments of Element(...): the fields of the settings, each None or set.
ElementArgs ==
    [tag : {{}, {""}, {"div"}}, id : {{}, {"main"}}, name : {{}},
     class_names : {{}, {<<>>}, {<<"a">>}}, attrs : {{}},
     index : {NoneInt} \cup {Some(i) : i \in 0..MaxIndex},
     xpath : {{}, {""}, {"//div"}}]

\* Python truth of an optional integer.
IntTruthy(opt) == opt # {} /\ Val(opt) # 0

\* Line 65: any([tag, id, name, class_names, attrs, index])
AtLeastOneAttributePassed(args) ==
    \/ StrTruthy(args.tag)
    \/ StrTruthy(args.id)
    \/ StrTruthy(args.name)
    \/ ListTruthy(args.class_names)
    \/ ListTruthy(args.attrs)
    \/ IntTruthy(args.index)

\* Lines 67-73: the two checks build a ValueError and drop it, so no call of the
\* constructor raises.
ElementInitRaises(args) == "none"

\* Lines 75-86: the settings the constructor assigns, if it assigns any: those
\* of the xpath, replaced by those of the attributes when one of them is true.
ElementInitSettings(args) ==
    LET by_xpath == IF StrTruthy(args.xpath)
                    THEN {[NoSettings EXCEPT !.xpath = args.xpath]} ELSE {}
    IN  IF AtLeastOneAttributePassed(args)
        THEN {[args EXCEPT !.xpath = {}]}
        ELSE by_xpath

\* An Element made by Element(tag, id, name, class_names, attrs): lines 65-86
\* assign its settings when one of the arguments is true and nothing otherwise.
ElementInit ==
    /\ GraphInit
    /\ adapter = NoAdapterCall
    /\ given_nodes = NoGivenNodes
    /\ element \in {[NoElement EXCEPT
                        !.args = s,
                        !.constructed = TRUE,
                        !.raised = ElementInitRaises(s),
                        !.has_settings = (ElementInitSettings(s) # {}),
                        !.settings = IF ElementInitSettings(s) = {} THEN NoSettings
                                     ELSE Val(ElementInitSettings(s))] :
                        s \in ElementSettings}

\* Element._build_css_selector(): line 229 reads self._settings, which an
\* Element that was given no settings does not have.
build_css_selector ==
    /\ ~element.built
    /\ element.raised = "none"
    /\ element' = IF element.has_settings
                  THEN [element EXCEPT !.built = TRUE,
                                       !.selector = BuildCssSelector(element.settings)]
                  ELSE [element EXCEPT !.raised = "AttributeError"]
    /\ UNCHANGED <<graph_vars, adapter, given_nodes>>

ElementNext == build_css_selector

ElementSpec == ElementInit /\ [][ElementNext]_vars

\* Element.__init__(tag, id, name, class_names, attrs, index, xpath)
element_init ==
    /\ ~element.constructed
    /\ LET assigned == ElementInitSettings(element.args) IN
       element' = [element EXCEPT
                      !.constructed = TRUE,
                      !.raised = ElementInitRaises(element.args),
                      !.has_settings = (assigned # {}),
                      !.settings = IF assigned = {} THEN NoSettings ELSE Val(assigned)]
    /\ UNCHANGED <<graph_vars, adapter, given_nodes>>

\* Lines 105-124, WebDriverWait(...).until(condition): the wait ends when the
\* condition holds for the page as the wait sees it, with a TimeoutException
\* otherwise.  at_wait is the number of matching elements the wait sees.
WaitPasses(settings, at_wait) ==
    IF StrTruthy(settings.xpath) \/ settings.index = NoneInt
    THEN at_wait >= 1
    ELSE at_wait >= Val(settings.index)

RetrieveOutcome(outcome, returned) == [outcome |-> outcome, returned |-> returned]

\* Element.retrieve, lines 104-140, on a page where at_find elements match when
\* line 126 looks for them.
Retrieve(has_settings, settings, at_wait, at_find) ==
    IF ~has_settings THEN RetrieveOutcome("AttributeError", {})
    ELSE IF ~WaitPasses(settings, at_wait) THEN RetrieveOutcome("TimeoutException", {})
    ELSE IF StrTruthy(settings.xpath)
    THEN IF at_find = 0 THEN RetrieveOutcome("NoSuchElementException", {})
         ELSE RetrieveOutcome("returned", Some(0))
    ELSE IF at_find = 0 THEN RetrieveOutcome("ElementNotFoundError", {})
    ELSE IF at_find = 1 /\ ~IntTruthy(settings.index)
    THEN RetrieveOutcome("returned", Some(0))
    ELSE IF at_find > 1 /\ ~IntTruthy(settings.index)
    THEN RetrieveOutcome("ElementNotUniqueError", {})
    ELSE IF Val(settings.index) < at_find
    THEN RetrieveOutcome("returned", settings.index)
    ELSE RetrieveOutcome("IndexError", {})

\* Element.retrieve(driver)
retrieve ==
    /\ element.constructed
    /\ element.raised = "none"
    /\ ~element.retrieve.called
    /\ LET r == Retrieve(element.has_settings, element.settings,
                         element.retrieve.at_wait, element.retrieve.at_find) IN
       element' = [element EXCEPT !.retrieve.called = TRUE,
                                  !.retrieve.outcome = r.outcome,
                                  !.retrieve.returned = r.returned]
    /\ UNCHANGED <<graph_vars, adapter, given_nodes>>

\* A caller that constructs an Element from any arguments and retrieves it from
\* a page with any number of matching elements.
RetrieveInit ==
    /\ GraphInit
    /\ adapter = NoAdapterCall
    /\ given_nodes = NoGivenNodes
    /\ element \in {[NoElement EXCEPT !.args = a, !.retrieve.at_wait = w,
                                       !.retrieve.at_find = n] :
                        a \in ElementArgs, w \in 0..MaxMatches, n \in 0..MaxMatches}

RetrieveNext ==
    \/ element_init
    \/ retrieve

RetrieveSpec == RetrieveInit /\ [][RetrieveNext]_vars

----------------------------------------------------------------------------
(* Nodes constructed from what a caller passes to ActionNode(...) *)

\* The longest list of conditions and of actions a caller passes.
MaxConditions == 2
MaxActions == 2

\* The lists of callbacks of the given kinds with lengths from lo to hi.
Lists(kinds, lo, hi) == UNION {[1..n -> kinds] : n \in lo..hi}

\* The kinds of conditions and actions a caller passes: functions and coroutine
\* functions, conditions that read state["ready"] and conditions that are false.
ListConditionKinds == {"ready", "false", "async_ready"}
ListActionKinds == {"record", "async_record"}

\* What a caller passes as the action or the condition of ActionNode(...): one
\* callable, None, or a list of callables.
OneCallable(f) == [form |-> "callable", items |-> <<f>>]
NoneGiven == [form |-> "none", items |-> <<>>]
ListGiven(l) == [form |-> "list", items |-> l]

GivenActions ==
    {OneCallable(f) : f \in ListActionKinds}
        \cup {ListGiven(l) : l \in Lists(ListActionKinds, 1, MaxActions)}

GivenConditions ==
    {NoneGiven} \cup {OneCallable(f) : f \in ListConditionKinds}
        \cup {ListGiven(l) : l \in Lists(ListConditionKinds, 0, MaxConditions)}

\* Lines 23-28 and 69-75: ActionNodeSettings validates its fields; action and
\* condition hold a callable or None, and a list is not a callable.
ActionNodeInitOutcome(action, condition) ==
    IF action.form = "list" \/ condition.form = "list" THEN "ValidationError" ELSE "ok"

\* The node a successful ActionNode(name, action, condition) is.
ConstructedNode(name, action, condition) ==
    ActionNode(name, action.items[1],
               IF condition.form = "none" THEN "none" ELSE condition.items[1],
               "none", NoneInt)

\* graph.add_edge_node(ActionNode(name, action, condition)): the constructor
\* runs first, and what it raises ends the caller's build.
add_constructed_node(name, action, condition) ==
    /\ status = "BUILD"
    /\ given_nodes.error = "none"
    /\ LET outcome == ActionNodeInitOutcome(action, condition) IN
       /\ given_nodes' = [given |-> Append(given_nodes.given,
                                        [name |-> name, action |-> action,
                                         condition |-> condition]),
                       error |-> IF outcome = "ok" THEN "none" ELSE outcome]
       /\ IF outcome = "ok"
          THEN AddEdgeNodeEffect("add_edge_node",
                                 ConstructedNode(name, action, condition), Omitted)
          ELSE UNCHANGED builder_vars
    /\ UNCHANGED <<default_max_retries, run_vars, first_run, adapter, element>>

\* A graph about to be built, on a page that is ready or not.
ListInit ==
    /\ nodes = (START :> WebGraphNode(StartNode))
    /\ graph_current_node = StartNode
    /\ default_max_retries \in Ceilings
    /\ state \in {[InitialState EXCEPT !.ready = r] : r \in BOOLEAN}
    /\ call = [op |-> "none", node |-> NoNode, starting_node |-> NoNode, outcome |-> "none",
               returned |-> {}]
    /\ status = "BUILD"
    /\ current_node = NoNode
    /\ current_edge_nodes = <<>>
    /\ current_retries = 0
    /\ error = NoError
    /\ action_calls = ZeroCalls
    /\ fallback_calls = ZeroCalls
    /\ last_step = "none"
    /\ action_saw = InitialState
    /\ log = <<>>
    /\ awaiting = NotAwaiting
    /\ first_run = NoFirstRun
    /\ adapter = NoAdapterCall
    /\ element = NoElement
    /\ given_nodes = NoGivenNodes

\* A caller that builds a chain from nodes it constructs with a callable, None
\* or a list for the action and for the condition, and runs it.
ListNext ==
    \/ \E name \in FreshNames, action \in GivenActions, condition \in GivenConditions :
           add_constructed_node(name, action, condition)
    \/ run_start
    \/ run_iteration

ListSpec == ListInit /\ [][ListNext]_vars

----------------------------------------------------------------------------
(* Vocabulary of the properties *)

Registered == DOMAIN nodes
UserNodes == Registered \ {START}
InRun == status # "BUILD"

EdgeSet(id) == {nodes[id].edge_nodes[i] : i \in 1..Len(nodes[id].edge_nodes)}
Frontier == {current_edge_nodes[i] : i \in 1..Len(current_edge_nodes)}

\* The node a registered user node was attached to.
ParentOf(id) == CHOOSE p \in Registered : id \in EdgeSet(p)

\* The user nodes on the way from the root to a node, the node included.
RECURSIVE PathTo(_)
PathTo(id) == IF id = NoNode \/ id = START THEN {} ELSE {id} \cup PathTo(ParentOf(id))

Executed == {id \in AllNames : action_calls[id] > 0}

Eligible(id) == RunCondition(nodes[id].node, state)

\* The ceiling of a node once resolved against the graph default.
ResolvedCeiling(id) ==
    IF nodes[id].node.fallback_action_max_retries # NoneInt
    THEN nodes[id].node.fallback_action_max_retries
    ELSE default_max_retries

\* run() waits on node id and no frontier node can ever become eligible.
StuckOn(id) ==
    /\ status = "RUNNING"
    /\ id # NoNode
    /\ current_node = id
    /\ \A e \in Frontier : nodes[e].node.condition = "false"

----------------------------------------------------------------------------
(* C1: at every scan of the frontier, run() executes the action of the first
   frontier node (in insertion order) whose condition is true and of no other
   node; a sibling whose condition is false is skipped even when it is listed
   first. *)
C1_FirstEligibleOnly ==
    [][status = "RUNNING" =>
         /\ \A j \in 1..Len(current_edge_nodes) :
              LET id == current_edge_nodes[j]
                  first == /\ Eligible(id)
                           /\ \A k \in 1..(j - 1) : ~Eligible(current_edge_nodes[k])
              IN  action_calls'[id] = action_calls[id] + (IF first THEN 1 ELSE 0)
         /\ \A id \in AllNames \ Frontier : action_calls'[id] = action_calls[id]
      ]_vars

\* A sibling listed first with a false condition was skipped and a later one ran.
C1_Witness ==
    \E p \in Registered : \E i, j \in 1..Len(nodes[p].edge_nodes) :
        /\ i < j
        /\ nodes[nodes[p].edge_nodes[i]].node.condition = "false"
        /\ action_calls[nodes[p].edge_nodes[i]] = 0
        /\ action_calls[nodes[p].edge_nodes[j]] = 1
        /\ current_node = nodes[p].edge_nodes[j]

(* C2: one run takes exactly one path from the root: every action is executed
   at most once, the executed nodes are the nodes on the path from the root to
   the current node, and so a frontier node that was not selected is never
   executed later. *)
C2_SinglePath ==
    /\ \A id \in AllNames : action_calls[id] <= 1
    /\ Executed = PathTo(current_node)
    /\ \A id \in Executed : id \in UserNodes

\* A finished run that went two levels deep and left an eligible sibling out.
C2_Witness ==
    /\ status = "DONE"
    /\ Cardinality(Executed) >= 2
    /\ \E id \in Executed : \E s \in EdgeSet(ParentOf(id)) :
          /\ s # id
          /\ nodes[s].node.condition = "none"
          /\ action_calls[s] = 0

(* C3: in a graph whose nodes have no conditions, run() executes the nodes of
   the chain of first children, each once and parent before child, and ends
   without error at the first node that has no children. *)
NoConditions == \A id \in Registered : nodes[id].node.condition = "none"

RECURSIVE FirstChildChain(_)
FirstChildChain(id) ==
    IF Len(nodes[id].edge_nodes) = 0 THEN {}
    ELSE {nodes[id].edge_nodes[1]} \cup FirstChildChain(nodes[id].edge_nodes[1])

C3_NoConditionsLinearChain ==
    (NoConditions /\ InRun) =>
        /\ status \in {"RUNNING", "DONE"}
        /\ \A id \in AllNames : action_calls[id] <= 1
        /\ Executed \subseteq FirstChildChain(START)
        /\ \A id \in Executed : ParentOf(id) = START \/ ParentOf(id) \in Executed
        /\ status = "DONE" => Executed = FirstChildChain(START)
        /\ status = "RUNNING" => ENABLED run_iteration

\* The same statement for the graphs that have at least one entry node.
C3_WithEntryNode == (nodes[START].edge_nodes # <<>>) => C3_NoConditionsLinearChain

(* C4: a current node with its own ceiling n, in a graph with a default ceiling
   g, whose frontier never becomes eligible: run() calls the node's fallback
   exactly n times and then raises the retry-exhaustion error with n, whether
   n < g, n = g or n > g. *)
OwnCeiling(id) == nodes[id].node.fallback_action_max_retries

RetryError(id, ceiling) ==
    [type |-> "MaxFallbackRetriesReachedError", node |-> id, max_retries |-> ceiling]

\* Waiting on c: the fallback calls so far are the retries, within the ceiling.
WaitingWithin(c, ceiling) ==
    /\ action_calls[c] = 1
    /\ fallback_calls[c] = current_retries
    /\ current_retries <= Val(ceiling)
    /\ ENABLED run_iteration

\* The next iteration: one more fallback below the ceiling, the error at it.
FallbackOrRaise(c, ceiling) ==
    IF fallback_calls[c] = Val(ceiling)
    THEN /\ status' = "FAILED"
         /\ error' = RetryError(c, ceiling)
         /\ fallback_calls' = fallback_calls
    ELSE /\ status' = "RUNNING"
         /\ current_node' = c
         /\ fallback_calls' = [fallback_calls EXCEPT ![c] = @ + 1]
         /\ error' = error

C4_NodeCeilingWins ==
    /\ [](\A c \in UserNodes :
            (StuckOn(c) /\ OwnCeiling(c) # NoneInt /\ default_max_retries # NoneInt)
                => WaitingWithin(c, OwnCeiling(c)))
    /\ [][\A c \in UserNodes :
            (StuckOn(c) /\ OwnCeiling(c) # NoneInt /\ default_max_retries # NoneInt)
                => FallbackOrRaise(c, OwnCeiling(c))]_vars

\* The run failed at the node's ceiling, above the graph default.
C4_Witness ==
    /\ status = "FAILED"
    /\ default_max_retries = Some(1)
    /\ error.max_retries = Some(MaxCeil)
    /\ fallback_calls[error.node] = MaxCeil
    /\ action_calls[error.node] = 1
    /\ Frontier # {}

(* C5: a current node without a ceiling of its own, in a graph with default
   ceiling g, whose frontier never becomes eligible: the node's action has run
   once, run() calls its fallback exactly g times and then raises the
   retry-exhaustion error with g. *)
C5_GraphDefaultApplies ==
    /\ [](\A c \in UserNodes :
            (StuckOn(c) /\ OwnCeiling(c) = NoneInt /\ default_max_retries # NoneInt)
                => WaitingWithin(c, default_max_retries))
    /\ [][\A c \in UserNodes :
            (StuckOn(c) /\ OwnCeiling(c) = NoneInt /\ default_max_retries # NoneInt)
                => FallbackOrRaise(c, default_max_retries)]_vars

\* The run failed at the graph default on a node with no ceiling of its own.
C5_Witness ==
    /\ status = "FAILED"
    /\ OwnCeiling(error.node) = NoneInt
    /\ default_max_retries = Some(MaxCeil)
    /\ error.max_retries = Some(MaxCeil)
    /\ fallback_calls[error.node] = MaxCeil
    /\ action_calls[error.node] = 1

(* C6: the chain N1 -> N2 -> N3 where N1 has ceiling k and N2's condition is
   always false: N1's action runs once, N1's fallback runs k times, run() then
   raises the retry-exhaustion error with N1 and k, and the actions of N2 and
   N3 never run. *)
Chain3 ==
    /\ Len(NodeNames) >= 3
    /\ {NodeNames[1], NodeNames[2], NodeNames[3]} \subseteq Registered
    /\ nodes[START].edge_nodes = <<NodeNames[1]>>
    /\ nodes[NodeNames[1]].edge_nodes = <<NodeNames[2]>>
    /\ nodes[NodeNames[2]].edge_nodes = <<NodeNames[3]>>
    /\ nodes[NodeNames[1]].node.condition = "none"
    /\ nodes[NodeNames[2]].node.condition = "false"
    /\ OwnCeiling(NodeNames[1]) # NoneInt

C6_ChainFailsAtFirstNode ==
    (Chain3 /\ InRun) =>
        LET k == Val(OwnCeiling(NodeNames[1])) IN
        /\ status \in {"RUNNING", "FAILED"}
        /\ action_calls[NodeNames[1]] <= 1
        /\ fallback_calls[NodeNames[1]] <= k
        /\ action_calls[NodeNames[2]] = 0
        /\ action_calls[NodeNames[3]] = 0
        /\ status = "RUNNING" => ENABLED run_iteration
        /\ status = "FAILED" =>
              /\ action_calls[NodeNames[1]] = 1
              /\ fallback_calls[NodeNames[1]] = k
              /\ error = RetryError(NodeNames[1], Some(k))

\* The chain failed after the second fallback of N1.
C6_Witness ==
    /\ Chain3
    /\ status = "FAILED"
    /\ fallback_calls[NodeNames[1]] = MaxCeil
    /\ error.node = NodeNames[1]

(* C7: a current node with no ceiling, in a graph with no default ceiling,
   whose children's conditions are permanently false: every iteration of run()
   is one more fallback of that node, the run stays RUNNING on that node and no
   retry-exhaustion error is raised, however many retries were made. *)
NoCeilingAt(c) == OwnCeiling(c) = NoneInt /\ default_max_retries = NoneInt

C7_UnboundedRetries ==
    /\ [](\A c \in UserNodes :
            (StuckOn(c) /\ NoCeilingAt(c)) =>
                /\ fallback_calls[c] = current_retries
                /\ error.type = "none"
                /\ current_retries < RetryCap => ENABLED run_iteration)
    /\ [][\A c \in UserNodes :
            (StuckOn(c) /\ NoCeilingAt(c)) =>
                /\ last_step' = "fallback"
                /\ fallback_calls' = [fallback_calls EXCEPT ![c] = @ + 1]
                /\ action_calls' = action_calls
                /\ StuckOn(c)']_vars

\* More fallbacks than any ceiling of the model, and the run still waits.
C7_Witness ==
    \E c \in UserNodes :
        /\ StuckOn(c)
        /\ NoCeilingAt(c)
        /\ fallback_calls[c] = RetryCap

(* C8: run() returns normally exactly when the node executed last has no
   children: the run is DONE as soon as a leaf's action has run, with no
   error, and nothing is invoked after that. *)
C8_DoneAtLeaf ==
    /\ [](InRun =>
            /\ status = "DONE" <=>
                 (current_node # NoNode /\ Len(nodes[current_node].edge_nodes) = 0)
            /\ status = "DONE" =>
                 /\ error.type = "none"
                 /\ last_step = "match"
                 /\ action_calls[current_node] = 1
                 /\ ~ENABLED run_iteration)
    /\ [][status # "DONE"]_vars

\* What the code does: the ceiling checks of lines 184-201 stand between the
\* action of a leaf and the test for the end of the graph, so run() returns
\* normally exactly when the node executed last is a leaf whose resolved
\* ceiling is not 0; at ceiling 0 the leaf's action is followed by the
\* retry-exhaustion error.
C8_DoneAtLeafUnlessCeilingZero ==
    /\ [](InRun =>
            /\ status = "DONE" <=>
                 /\ current_node # NoNode
                 /\ Len(nodes[current_node].edge_nodes) = 0
                 /\ ResolvedCeiling(current_node) # Some(0)
            /\ status = "DONE" =>
                 /\ error.type = "none"
                 /\ last_step = "match"
                 /\ action_calls[current_node] = 1
                 /\ ~ENABLED run_iteration
            /\ (/\ current_node # NoNode
                /\ Len(nodes[current_node].edge_nodes) = 0
                /\ ResolvedCeiling(current_node) = Some(0)) =>
                 /\ status = "FAILED"
                 /\ last_step = "match_raise"
                 /\ error.node = current_node
                 /\ error.max_retries = Some(0))
    /\ [][status # "DONE"]_vars

\* The action of a leaf ran after its parent's fallback had made it eligible,
\* and run() ended with the retry-exhaustion error for the leaf.
C8_LeafRaises ==
    /\ status = "FAILED"
    /\ last_step = "match_raise"
    /\ Len(nodes[current_node].edge_nodes) = 0
    /\ action_calls[current_node] = 1
    /\ fallback_calls[current_node] = 0
    /\ error.node = current_node
    /\ \E id \in Executed : fallback_calls[id] > 0

(* C9: all callbacks of a run work on the one shared state: what a callback of
   an earlier node wrote is what the callbacks of later nodes read (an action
   finds state["last"] as its parent's action left it, a condition finds
   state["ready"] as the last fallback left it), and the state changes only in
   an iteration of run() that executes an action or a fallback, by what that
   callback writes; no builder call and no other engine step writes to it. *)
WrittenByParent(id) == IF ParentOf(id) = START THEN InitialState.last ELSE ParentOf(id)

C9_SharedState ==
    /\ [](current_node # NoNode =>
            /\ action_saw.last = WrittenByParent(current_node)
            /\ state.last = current_node
            /\ state.ready =>
                 \E id \in Executed : fallback_calls[id] > 0
                                        /\ nodes[id].node.fallback_action = "fix")
    /\ [][(status = "RUNNING" /\ state.ready
              /\ \E e \in Frontier : nodes[e].node.condition = "ready")
            => last_step' \in {"match", "match_raise"}]_vars
    /\ [][state' # state =>
            /\ status = "RUNNING"
            /\ \/ last_step' \in {"match", "match_raise"} /\ state'.ready = state.ready
               \/ /\ last_step' = "fallback"
                  /\ state'.last = state.last
                  /\ nodes[current_node].node.fallback_action = "fix"]_vars

\* A node below a user node whose condition and action read what the parent's
\* fallback and action had written.
C9_Witness ==
    /\ current_node # NoNode
    /\ ParentOf(current_node) # START
    /\ nodes[current_node].node.condition = "ready"
    /\ fallback_calls[ParentOf(current_node)] > 0
    /\ action_saw = [ready |-> TRUE, last |-> ParentOf(current_node)]
    /\ state = [ready |-> TRUE, last |-> current_node]

(* C10: add_edge_node with a node whose name is already registered fails with
   the duplicate-node error and attaches nothing, whether the starting node is
   omitted, the root, a registered node or a node that is not in the graph. *)
C10_DuplicateNameRejected ==
    [][(status = "BUILD" /\ status' = "BUILD"
          /\ call'.op = "add_edge_node" /\ call'.node \in Registered)
        => /\ call'.outcome = "DuplicateNode"
           /\ nodes' = nodes
           /\ graph_current_node' = graph_current_node]_vars

\* A duplicate was rejected although its starting node is not in the graph.
C10_Witness ==
    /\ call.op = "add_edge_node"
    /\ call.outcome = "DuplicateNode"
    /\ call.node \in UserNodes
    /\ call.starting_node \notin Registered \cup {NoNode}

(* C11: add_edge_node with a starting node that is not registered in the graph
   fails with a construction error (the unknown-starting-node error when the
   new node itself is acceptable) and leaves the registry and the builder
   cursor as they were, so the new node is not registered. *)
ConstructionErrors == {"DuplicateNode", "ReservedName", "UnknownStartingNode"}

C11_UnknownParentRejected ==
    [][(status = "BUILD" /\ status' = "BUILD"
          /\ call'.op = "add_edge_node"
          /\ call'.starting_node \notin Registered \cup {NoNode})
        => /\ call'.outcome \in ConstructionErrors
           /\ (call'.node \notin Registered => call'.outcome = "UnknownStartingNode")
           /\ nodes' = nodes
           /\ call'.node \notin Registered => call'.node \notin DOMAIN nodes'
           /\ graph_current_node' = graph_current_node]_vars

\* A new node was refused because its starting node is not in the graph, after
\* another node had been attached.
C11_Witness ==
    /\ call.op = "add_edge_node"
    /\ call.outcome = "UnknownStartingNode"
    /\ call.node \notin Registered
    /\ call.starting_node \notin Registered \cup {NoNode}
    /\ UserNodes # {}

(* C12: no user node named START is ever registered: add_edge_node and add_step
   reject such a node with a construction error and change nothing, and in
   every builder state the only registered node named START is the root the
   constructor made. *)
C12_ReservedNameRejected ==
    /\ [](/\ START \in Registered
          /\ nodes[START].node = StartNode
          /\ \A id \in Registered : nodes[id].node.name = START => id = START
          /\ \A id \in Registered : START \notin EdgeSet(id))
    /\ [][(status = "BUILD" /\ status' = "BUILD"
             /\ call'.op \in {"add_edge_node", "add_step"} /\ call'.node = START)
           => /\ call'.outcome \in {"DuplicateNode", "ReservedName"}
              /\ nodes' = nodes
              /\ graph_current_node' = graph_current_node]_vars

\* A node named START was refused while the graph already had user nodes.
C12_Witness ==
    /\ call.op = "add_edge_node"
    /\ call.node = START
    /\ call.outcome \in {"DuplicateNode", "ReservedName"}
    /\ UserNodes # {}
    /\ nodes[START].node = StartNode

(* C13: add_edge_node without a starting node appends the node to the edge
   nodes of the builder cursor (the root at first), registers it and makes it
   the cursor; a graph built only by such calls is a linear chain from the
   root, and run() executes every node's action exactly once, parent before
   child, and ends at the last one. *)
LinearChain ==
    /\ \A id \in Registered : Len(nodes[id].edge_nodes) <= 1
    /\ FirstChildChain(START) = UserNodes
    /\ NodeId(graph_current_node) \in Registered
    /\ nodes[NodeId(graph_current_node)].edge_nodes = <<>>

\* The step attached the node call'.node below the cursor and moved the cursor.
AttachedAtCursor ==
    LET p == NodeId(graph_current_node)
        n == call'.node IN
    /\ call'.outcome = "ok"
    /\ n \notin Registered
    /\ DOMAIN nodes' = Registered \cup {n}
    /\ nodes'[p].edge_nodes = Append(nodes[p].edge_nodes, n)
    /\ nodes'[p].node = nodes[p].node
    /\ \A id \in Registered \ {p} : nodes'[id] = nodes[id]
    /\ nodes'[n] = WebGraphNode(graph_current_node')
    /\ NodeId(graph_current_node') = n

\* A run over a chain whose nodes all execute: each action once, in chain order.
ChainRunsOnce ==
    /\ status \in {"RUNNING", "DONE"}
    /\ \A id \in AllNames : action_calls[id] <= 1
    /\ \A id \in Executed : ParentOf(id) = START \/ ParentOf(id) \in Executed
    /\ status = "DONE" => Executed = UserNodes
    /\ status = "RUNNING" => ENABLED run_iteration

C13_ParentlessBuildsChain ==
    /\ [][(status = "BUILD" /\ status' = "BUILD" /\ call'.op = "add_edge_node"
             /\ call'.starting_node = NoNode /\ call' # call)
           => AttachedAtCursor]_vars
    /\ [](LinearChain)
    /\ [](InRun => ChainRunsOnce)

\* No node of the chain resolves to the ceiling 0.
NoZeroCeiling == \A id \in UserNodes : ResolvedCeiling(id) # Some(0)

\* What the code does: the calls build the chain, and run() executes every
\* action once and ends at the last node when no node has a condition and no
\* node resolves to the ceiling 0; a node that resolves to 0 ends the run with
\* the retry-exhaustion error right after its own action, before any node
\* below it.
C13_ChainRunsUnlessCeilingZero ==
    /\ [][(status = "BUILD" /\ status' = "BUILD" /\ call'.op = "add_edge_node"
             /\ call'.starting_node = NoNode /\ call' # call)
           => AttachedAtCursor]_vars
    /\ [](LinearChain)
    /\ []((InRun /\ UserNodes # {} /\ NoConditions /\ NoZeroCeiling) => ChainRunsOnce)
    /\ []((InRun /\ NoConditions /\ current_node # NoNode
             /\ ResolvedCeiling(current_node) = Some(0)) =>
            /\ status = "FAILED"
            /\ last_step = "match_raise"
            /\ error.node = current_node
            /\ \A id \in UserNodes \ PathTo(current_node) : action_calls[id] = 0)

\* Three nodes without conditions and without ceilings of their own were added
\* to a graph whose default ceiling is 0: run() executed the first one and
\* ended with the retry-exhaustion error, the other two never ran.
C13_ChainCutAtFirstNode ==
    /\ status = "FAILED"
    /\ call.op = "add_edge_node"
    /\ call.starting_node = NoNode
    /\ Cardinality(UserNodes) = 3
    /\ NoConditions
    /\ \A id \in UserNodes : nodes[id].node.fallback_action_max_retries = NoneInt
    /\ default_max_retries = Some(0)
    /\ action_calls[NodeNames[1]] = 1
    /\ action_calls[NodeNames[2]] = 0
    /\ action_calls[NodeNames[3]] = 0
    /\ error.node = NodeNames[1]
    /\ fallback_calls = ZeroCalls

(* C14: add_step(name, action) makes a node that has only that name and action,
   appends it to the edge nodes of the builder cursor, makes it the cursor and
   returns it; a graph built only by add_step calls is a linear chain of nodes
   without conditions, and run() executes every step's action exactly once, in
   the order the steps were added, and ends at the last one. *)
StepsInOrder ==
    \A i, j \in 1..Len(NodeNames) :
        (i < j /\ NodeNames[j] \in Registered) =>
            /\ NodeNames[i] \in Registered
            /\ NodeNames[j] \in PathTo(NodeNames[j])
            /\ NodeNames[i] \in PathTo(NodeNames[j])
            /\ action_calls[NodeNames[j]] <= action_calls[NodeNames[i]]

C14_StepsBuildChain ==
    /\ [][(status = "BUILD" /\ status' = "BUILD" /\ call'.op = "add_step"
             /\ call' # call)
           => IF call'.node \in Registered \cup {START}
              THEN /\ call'.outcome \in ConstructionErrors
                   /\ call'.returned = {}
                   /\ UNCHANGED <<nodes, graph_current_node>>
              ELSE /\ AttachedAtCursor
                   /\ graph_current_node' = MinimalNode(call'.node)
                   /\ call'.returned = Some(graph_current_node')]_vars
    /\ [](LinearChain /\ NoConditions /\ StepsInOrder)
    /\ []((InRun /\ UserNodes # {}) => ChainRunsOnce)

\* What the code does: the steps form the chain, and run() executes every
\* step once, in order, unless the default ceiling of the graph is 0; then it
\* executes the first step only and ends with the retry-exhaustion error.
C14_StepsRunUnlessCeilingZero ==
    /\ [](LinearChain /\ NoConditions /\ StepsInOrder)
    /\ []((InRun /\ UserNodes # {} /\ default_max_retries # Some(0)) => ChainRunsOnce)
    /\ []((InRun /\ UserNodes # {} /\ default_max_retries = Some(0)
             /\ current_node # NoNode) =>
            /\ status = "FAILED"
            /\ last_step = "match_raise"
            /\ current_node = NodeNames[1]
            /\ error.node = NodeNames[1]
            /\ error.max_retries = Some(0)
            /\ \A id \in UserNodes \ {NodeNames[1]} : action_calls[id] = 0)

\* Three steps were added to a graph whose default ceiling is 0: run() executed
\* the first and ended with the retry-exhaustion error.
C14_StepsCutAtFirstStep ==
    /\ status = "FAILED"
    /\ call.op = "add_step"
    /\ default_max_retries = Some(0)
    /\ Cardinality(UserNodes) = 3
    /\ action_calls[NodeNames[1]] = 1
    /\ action_calls[NodeNames[2]] = 0
    /\ action_calls[NodeNames[3]] = 0
    /\ error.node = NodeNames[1]
    /\ state.last = NodeNames[1]

(* C15: set_current_node(node) fails when the node is not registered in the
   graph and then leaves the builder cursor where it was; it moves the cursor
   to the node only when the node is registered. *)
C15_SetCurrentRejectsUnregistered ==
    [][(status = "BUILD" /\ status' = "BUILD" /\ call'.op = "set_current_node")
        => IF call'.node \in Registered
           THEN /\ call'.outcome = "ok"
                /\ NodeId(graph_current_node') = call'.node
           ELSE /\ call'.outcome # "ok"
                /\ graph_current_node' = graph_current_node]_vars

\* What set_current_node does: it never fails and always moves the cursor to
\* the node it is given, registered or not, and touches nothing else.
C15_SetCurrentAlwaysRepositions ==
    [][(status = "BUILD" /\ status' = "BUILD" /\ call'.op = "set_current_node")
        => /\ call'.outcome = "ok"
           /\ NodeId(graph_current_node') = call'.node
           /\ nodes' = nodes]_vars

\* The cursor is a node that is not in the graph.
C15_CursorOutsideGraph ==
    /\ status = "BUILD"
    /\ call.op = "set_current_node"
    /\ call.outcome = "ok"
    /\ NodeId(graph_current_node) \notin Registered

(* C16: when an action, condition or fallback callback raises, run() ends with
   that exception: the raising callback is the last one invoked, the error is
   the callback's and not the retry-exhaustion error even when the retry
   ceiling has been reached, nothing happens afterwards, and the shared state
   is what the callbacks invoked so far left, the raising one included. *)
RaiseEntries == {k \in 1..Len(log) : log[k].result = "raise"}

LastOf(seq) == seq[Len(seq)]

\* The callback of that kind the node was given.
CallbackOf(entry) ==
    IF entry.kind = "condition" THEN nodes[entry.node].node.condition
    ELSE IF entry.kind = "action" THEN nodes[entry.node].node.action
    ELSE nodes[entry.node].node.fallback_action

ActionEntries == {k \in 1..Len(log) : log[k].kind = "action"}

\* state["last"] as the actions invoked so far left it.
LastWritten ==
    IF ActionEntries = {} THEN InitialState.last
    ELSE log[CHOOSE k \in ActionEntries : \A j \in ActionEntries : j <= k].node

C16_CallbackExceptionPropagates ==
    /\ [](RaiseEntries # {} =>
            /\ status = "RAISED"
            /\ RaiseEntries = {Len(log)}
            /\ error = [type |-> "CallbackError", node |-> LastOf(log).node,
                        max_retries |-> NoneInt]
            /\ CallbackOf(LastOf(log)) \in {Raising, "raise_if_ready"})
    /\ [](status = "RAISED" => RaiseEntries # {} /\ ~ENABLED run_iteration)
    /\ [](InRun => state.last = LastWritten)
    /\ [][status = "RAISED" => UNCHANGED vars]_vars
    /\ [][status' = "RAISED" =>
            /\ state'.ready = state.ready
            /\ LastOf(log').kind = "condition" =>
                  UNCHANGED <<state, action_calls, fallback_calls>>
            /\ LastOf(log').kind = "action" =>
                  /\ state'.last = LastOf(log').node
                  /\ action_calls'[LastOf(log').node] = action_calls[LastOf(log').node] + 1
                  /\ UNCHANGED fallback_calls
            /\ LastOf(log').kind = "fallback" =>
                  /\ state' = state
                  /\ action_calls' = action_calls]_vars

\* A condition raised in the scan after the last retry the ceiling allows: the
\* run ended with the condition's exception, the recovered state still there.
C16_Witness ==
    /\ status = "RAISED"
    /\ LastOf(log).kind = "condition"
    /\ current_node # NoNode
    /\ default_max_retries # NoneInt
    /\ current_retries = Val(default_max_retries)
    /\ fallback_calls[current_node] = current_retries
    /\ state = [ready |-> TRUE, last |-> current_node]

(* C17: _call_function passes a callback exactly the inputs its signature
   declares by name among driver and state, each bound to the parameter of
   that name wherever it stands in the signature: both, only the driver, only
   the state, or nothing; no other parameter gets an argument. *)
C17_ExactlyDeclaredInputs ==
    adapter.called =>
        LET declared == ParameterNames(adapter.f.parameters) IN
        /\ {a[1] : a \in adapter.kwargs} = declared \cap {"driver", "state"}
        /\ Cardinality(adapter.kwargs) = Cardinality(declared \cap {"driver", "state"})
        /\ Len(adapter.bound) = Len(adapter.f.parameters)
        /\ \A k \in 1..Len(adapter.f.parameters) :
              adapter.bound[k] =
                  IF adapter.f.parameters[k] = "driver" THEN Driver
                  ELSE IF adapter.f.parameters[k] = "state" THEN StateDict
                  ELSE "default"

\* A callback declared as f(state, driver) got the state first, the driver second.
C17_Witness ==
    /\ adapter.called
    /\ adapter.f.parameters = <<"state", "driver">>
    /\ adapter.bound = <<StateDict, Driver>>
    /\ adapter.result = "true"

(* C18: a run over a graph in which any of the callbacks are asynchronous goes
   as the run over the same graph with synchronous callbacks: as long as the
   callbacks give the same results the same conditions, actions and fallbacks
   are invoked in the same order, the run ends the same way, and every
   callback has completed when the next one is invoked. *)
IsPrefix(a, b) == Len(a) <= Len(b) /\ SubSeq(b, 1, Len(a)) = a

IsCondition(entry) == entry.kind = "condition"

\* The results the condition callbacks gave, in the order they were invoked.
ConditionOutcomes(l) ==
    LET conditions == SelectSeq(l, IsCondition)
    IN  [k \in 1..Len(conditions) |-> conditions[k].result]

\* The run in progress goes as the run kept in first_run went.
SameTraversal ==
    /\ IsPrefix(ConditionOutcomes(log), ConditionOutcomes(first_run.log))
          => IsPrefix(log, first_run.log)
    /\ (status \in Terminal
          /\ IsPrefix(ConditionOutcomes(log), ConditionOutcomes(first_run.log)))
          => /\ log = first_run.log
             /\ status = first_run.status
             /\ error = first_run.error

SomeAsync == \E id \in Registered : nodes[id].node # first_run.nodes[id].node

C18_AsyncSameTraversal ==
    /\ (first_run # NoFirstRun /\ SomeAsync) => SameTraversal
    /\ \A k \in 1..Len(log) : log[k].result # "pending"

\* The run with asynchronous conditions and fallbacks waited, recovered and
\* finished exactly as the synchronous run had.
C18_Witness ==
    /\ first_run.status = "DONE"
    /\ status = "DONE"
    /\ \E id \in UserNodes : /\ nodes[id].node.condition = "async_ready"
                              /\ action_calls[id] = 1
    /\ \E id \in UserNodes : /\ nodes[id].node.fallback_action = "async_fix"
                              /\ fallback_calls[id] > 0
    /\ log = first_run.log
    /\ Len(log) >= 4

(* C20: the CSS selector is the tag, or * without a tag, followed in this
   order by #id, [name="..."], one .class for every class name in list order
   and one [k="v"] for every attribute in insertion order; a part that is not
   set, or is empty, adds nothing. *)
TagPart(s) == IF s.tag \in {{}, {""}} THEN "*" ELSE Val(s.tag)
IdPart(s) == IF s.id \in {{}, {""}} THEN "" ELSE "#" \o Val(s.id)
NamePart(s) == IF s.name \in {{}, {""}} THEN "" ELSE "[name=\"" \o Val(s.name) \o "\"]"

\* The parts of the first n items of a list, one after the other.
ClassPart(s) ==
    LET classes == IF s.class_names = {} THEN <<>> ELSE Val(s.class_names)
        upto[n \in 0..Len(classes)] ==
            IF n = 0 THEN "" ELSE upto[n - 1] \o "." \o classes[n]
    IN  upto[Len(classes)]

AttrPart(s) ==
    LET items == IF s.attrs = {} THEN <<>> ELSE Val(s.attrs)
        upto[n \in 0..Len(items)] ==
            IF n = 0 THEN ""
            ELSE upto[n - 1] \o "[" \o items[n][1] \o "=\"" \o items[n][2] \o "\"]"
    IN  upto[Len(items)]

C20_SelectorOrder ==
    element.built =>
        element.selector =
            TagPart(element.settings) \o IdPart(element.settings)
                \o NamePart(element.settings) \o ClassPart(element.settings)
                \o AttrPart(element.settings)

\* The element of the test, with every part set.
C20_Witness ==
    /\ element.built
    /\ element.settings = [tag |-> {"div"}, id |-> {"main"}, name |-> {"q"},
                           class_names |-> {<<"b", "a">>},
                           attrs |-> {<<<<"t", "w">>, <<"k", "v">>>>},
                           index |-> {}, xpath |-> {}]
    /\ element.selector = "div#main[name=\"q\"].b.a[t=\"w\"][k=\"v\"]"

\* An element with only a class list and an empty id.
C20_WitnessNoTag ==
    /\ element.built
    /\ element.settings = [tag |-> {}, id |-> {""}, name |-> {},
                           class_names |-> {<<"a">>}, attrs |-> {<<>>},
                           index |-> {}, xpath |-> {}]
    /\ element.selector = "*.a"

(* C21: constructing an Element fails with an error when an XPath is given
   together with any other attribute, and when neither an XPath nor an
   attribute is given; an Element whose construction succeeds has its
   settings. *)
XPathGiven(args) == args.xpath # {}

AttributeGiven(args) ==
    \E field \in {"tag", "id", "name", "class_names", "attrs", "index"} :
        args[field] # {}

C21_ConstructionValidated ==
    element.constructed =>
        /\ (XPathGiven(element.args) /\ AttributeGiven(element.args))
              => element.raised # "none"
        /\ (~XPathGiven(element.args) /\ ~AttributeGiven(element.args))
              => element.raised # "none"
        /\ element.raised = "none" => element.has_settings

\* What the constructor does: it never fails; the attributes win over the
\* XPath, and an Element without a true attribute and without a true XPath is
\* left without settings.
C21_ConstructionNeverFails ==
    element.constructed =>
        /\ element.raised = "none"
        /\ element.has_settings <=>
              (AtLeastOneAttributePassed(element.args) \/ StrTruthy(element.args.xpath))
        /\ AtLeastOneAttributePassed(element.args) => element.settings.xpath = {}

\* Element(tag="div", xpath="//div") was constructed, and so was Element().
C21_BothGivenConstructed ==
    /\ element.constructed
    /\ element.raised = "none"
    /\ element.args.tag = {"div"}
    /\ element.args.xpath = {"//div"}
    /\ element.settings.xpath = {}

C21_NothingGivenConstructed ==
    /\ element.constructed
    /\ element.raised = "none"
    /\ element.args = NoSettings
    /\ ~element.has_settings

(* C22: by CSS selector, retrieve raises ElementNotUniqueError exactly when
   more than one element matches and no index was given; with an index i,
   0 included, and more than i matching elements it returns the i-th of them;
   when nothing matches it raises ElementNotFoundError.  Stated for the calls
   whose wait for the element ended without a timeout. *)
BySelector ==
    /\ element.retrieve.called
    /\ element.has_settings
    /\ ~StrTruthy(element.settings.xpath)
    /\ element.retrieve.outcome # "TimeoutException"

C22_RetrieveByIndex ==
    BySelector =>
        LET index == element.settings.index
            found == element.retrieve.at_find
            outcome == element.retrieve.outcome
        IN  /\ outcome = "ElementNotUniqueError" <=> (found > 1 /\ index = NoneInt)
            /\ (index # NoneInt /\ found > Val(index)) =>
                  /\ outcome = "returned"
                  /\ element.retrieve.returned = index
            /\ found = 0 => outcome = "ElementNotFoundError"

\* What retrieve does: an index of 0 counts as no index.
C22_IndexZeroIsNoIndex ==
    BySelector =>
        LET index == element.settings.index
            found == element.retrieve.at_find
            outcome == element.retrieve.outcome
        IN  /\ outcome = "ElementNotUniqueError" <=> (found > 1 /\ ~IntTruthy(index))
            /\ (IntTruthy(index) /\ found > Val(index)) =>
                  /\ outcome = "returned"
                  /\ element.retrieve.returned = index
            /\ found = 0 => outcome = "ElementNotFoundError"

\* Element(tag="div", index=0) on a page with two div elements.
C22_IndexZeroNotUnique ==
    /\ BySelector
    /\ element.args.tag = {"div"}
    /\ element.settings.index = Some(0)
    /\ element.retrieve.at_find = 2
    /\ element.retrieve.outcome = "ElementNotUniqueError"

(* C23: the retry ceiling is checked before the fallback is invoked: while
   run() is on a node whose resolved ceiling is finite, the retry counter is at
   most that ceiling and so is the number of fallback invocations of every
   node; when the retry-exhaustion error is raised the fallback of the node it
   names was invoked as many times as the ceiling, so the iteration that
   raised invoked none. *)
HasCurrent == InRun /\ current_node # NoNode

Finite(ceiling) == ceiling # NoneInt

\* The invocations of the fallback callback of a node, as positions of the log.
FallbackEntries(id) == {k \in 1..Len(log) : log[k] = LogEntry("fallback", id, "done")}

C23_CeilingBeforeFallback ==
    /\ \A id \in UserNodes :
          Finite(ResolvedCeiling(id)) => fallback_calls[id] <= Val(ResolvedCeiling(id))
    /\ (HasCurrent /\ Finite(ResolvedCeiling(current_node))) =>
          /\ current_retries <= Val(ResolvedCeiling(current_node))
          /\ fallback_calls[current_node] = current_retries
    /\ status = "FAILED" =>
          /\ error = RetryError(current_node, ResolvedCeiling(current_node))
          /\ current_retries = Val(ResolvedCeiling(current_node))
          /\ fallback_calls[current_node] = Val(ResolvedCeiling(current_node))
          /\ last_step = IF ResolvedCeiling(current_node) = Some(0)
                         THEN "match_raise" ELSE "raise"

\* The run failed at a node after as many fallbacks as its ceiling, no more.
C23_Witness ==
    /\ status = "FAILED"
    /\ ResolvedCeiling(current_node) = Some(MaxCeil)
    /\ fallback_calls[current_node] = MaxCeil
    /\ nodes[current_node].node.fallback_action = "fix"
    /\ Cardinality(FallbackEntries(current_node)) = MaxCeil

(* C24: the retry counter is 0 again whenever a frontier node has matched, so
   it counts the fallbacks of the current node only: a node gets its whole
   ceiling of fallbacks however many fallbacks the nodes before it used. *)
EarlierFallbacks ==
    {id \in Executed \ {current_node} : fallback_calls[id] > 0}

C24_RetryBudgetPerNode ==
    /\ last_step = "match" => current_retries = 0
    /\ HasCurrent => current_retries = fallback_calls[current_node]
    /\ (status = "FAILED" /\ EarlierFallbacks # {}) =>
          fallback_calls[current_node] = Val(ResolvedCeiling(current_node))

\* A node used its whole ceiling after the node before it had used fallbacks.
C24_Witness ==
    /\ status = "FAILED"
    /\ EarlierFallbacks # {}
    /\ ResolvedCeiling(current_node) = Some(MaxCeil)
    /\ fallback_calls[current_node] = MaxCeil

(* C25: when no frontier node is eligible and the ceiling of the current node
   is not reached, one iteration of run() invokes the fallback of the current
   node and of no other node, adds exactly one to the retry counter and leaves
   the current node and the frontier as they are; no action is executed. *)
NoneEligible == \A e \in Frontier : ~Eligible(e)

BelowCeiling ==
    \/ ~Finite(ResolvedCeiling(current_node))
    \/ current_retries < Val(ResolvedCeiling(current_node))

\* The callbacks an iteration invoked: the entries it added to the log.
NewEntries == {log'[k] : k \in (Len(log) + 1)..Len(log')}

C25_FallbackOfCurrentOnly ==
    [][(status = "RUNNING" /\ current_node # NoNode /\ NoneEligible /\ BelowCeiling) =>
          /\ fallback_calls' = [fallback_calls EXCEPT ![current_node] = @ + 1]
          /\ current_retries' = current_retries + 1
          /\ current_node' = current_node
          /\ current_edge_nodes' = current_edge_nodes
          /\ action_calls' = action_calls
          /\ \A entry \in NewEntries :
                \/ entry.kind = "condition" /\ entry.node \in Frontier
                \/ entry.kind = "fallback" /\ entry.node = current_node
          /\ nodes[current_node].node.fallback_action # "none" =>
                LogEntry("fallback", current_node, "done") \in NewEntries
      ]_vars

\* The fallback of a node ran once while its child, which has a fallback of its
\* own, was not eligible; the fallback of its parent did not run.
C25_Witness ==
    /\ status = "RUNNING"
    /\ last_step = "fallback"
    /\ current_node # NoNode
    /\ ParentOf(current_node) # START
    /\ nodes[ParentOf(current_node)].node.fallback_action = "fix"
    /\ nodes[current_node].node.fallback_action = "fix"
    /\ fallback_calls[current_node] = 1
    /\ fallback_calls[ParentOf(current_node)] = 0
    /\ \A e \in Frontier :
          /\ nodes[e].node.fallback_action = "fix"
          /\ fallback_calls[e] = 0
    /\ Frontier # {}

(* C26: when none of the root's children is eligible at the start of run(),
   the root is the current node: run() retries under the graph default and
   either goes on or fails with the retry-exhaustion error that names the
   root and the default; no other error is raised. *)
NothingMatchedYet == InRun /\ Executed = {}

C26_RootIsCurrent ==
    (NothingMatchedYet /\ nodes[START].edge_nodes # <<>>) =>
        /\ status \in {"RUNNING", "FAILED"}
        /\ error.type \in {"none", "MaxFallbackRetriesReachedError"}
        /\ status = "FAILED" => error = RetryError(START, default_max_retries)
        /\ status = "RUNNING" => ENABLED run_iteration

(* C27: run() on a graph without user nodes ends successfully, invokes no
   callback and raises no error. *)
C27_EmptyGraphRuns ==
    (InRun /\ UserNodes = {}) =>
        /\ status \in {"RUNNING", "DONE"}
        /\ error.type = "none"
        /\ log = <<>>
        /\ status = "RUNNING" => ENABLED run_iteration

\* What run() does while it has no current node: the first iteration that
\* matches nothing ends the run with an AttributeError, before any fallback
\* and whatever the graph default is.
RunWithoutCurrentCrashes ==
    /\ [](status = "CRASHED" =>
            /\ Executed = {}
            /\ error.type = "AttributeError"
            /\ fallback_calls = ZeroCalls)
    /\ [][(status = "RUNNING" /\ current_node = NoNode /\ NoneEligible)
             => status' = "CRASHED"]_vars

(* C28: fallbacks are a recovery path: when the current node has had at least
   one fallback and fewer than its resolved ceiling, and the condition of a
   frontier node is true now, the next iteration executes the action of the
   first such node, sets the retry counter to 0, makes that node the current
   node and its children the frontier, and raises no error. *)
ConditionTrueNow(id) ==
    \/ nodes[id].node.condition = "none"
    \/ nodes[id].node.condition = "ready" /\ state.ready

\* The first frontier node, in insertion order, whose condition is true now.
FirstTrue ==
    current_edge_nodes[CHOOSE i \in 1..Len(current_edge_nodes) :
                           /\ ConditionTrueNow(current_edge_nodes[i])
                           /\ \A j \in 1..(i - 1) :
                                 ~ConditionTrueNow(current_edge_nodes[j])]

Recovering ==
    /\ status = "RUNNING"
    /\ current_node # NoNode
    /\ current_retries >= 1
    /\ BelowCeiling
    /\ \E e \in Frontier : ConditionTrueNow(e)

C28_FallbackRecovers ==
    [][Recovering =>
          /\ action_calls' = [action_calls EXCEPT ![FirstTrue] = @ + 1]
          /\ fallback_calls' = fallback_calls
          /\ current_retries' = 0
          /\ current_node' = FirstTrue
          /\ current_edge_nodes' = nodes[FirstTrue].edge_nodes
          /\ status' \in {"RUNNING", "DONE"}
          /\ error' = NoError
      ]_vars

\* What the code does: the recovering iteration executes the action of the
\* first eligible node, sets the counter to 0 and makes that node the current
\* node; it moves the frontier on and raises nothing unless that node resolves
\* to the ceiling 0, and then it ends with the retry-exhaustion error for the
\* node it has just executed and leaves the frontier where it was.
C28_RecoversUnlessCeilingZero ==
    [][Recovering =>
          /\ action_calls' = [action_calls EXCEPT ![FirstTrue] = @ + 1]
          /\ fallback_calls' = fallback_calls
          /\ current_retries' = 0
          /\ current_node' = FirstTrue
          /\ IF ResolvedCeiling(FirstTrue) = Some(0)
             THEN /\ status' = "FAILED"
                  /\ current_edge_nodes' = current_edge_nodes
                  /\ error'.node = FirstTrue
                  /\ error'.max_retries = Some(0)
             ELSE /\ status' \in {"RUNNING", "DONE"}
                  /\ current_edge_nodes' = nodes[FirstTrue].edge_nodes
                  /\ error' = NoError
      ]_vars

\* A node without a ceiling of its own became eligible after one fallback of
\* its parent, whose own ceiling is larger; the graph default is 0, and run()
\* ended with the retry-exhaustion error right after the node's action.
C28_RecoveryRaises ==
    /\ status = "FAILED"
    /\ last_step = "match_raise"
    /\ nodes[current_node].node.condition = "ready"
    /\ nodes[current_node].node.fallback_action_max_retries = NoneInt
    /\ default_max_retries = Some(0)
    /\ ParentOf(current_node) # START
    /\ fallback_calls[ParentOf(current_node)] = 1
    /\ ResolvedCeiling(ParentOf(current_node)) = Some(MaxCeil)
    /\ action_calls[current_node] = 1
    /\ error.node = current_node

(* C29: a node is eligible exactly when all of the conditions it was given
   are true; they are invoked in the order given and none is invoked after
   the first false one; a node without conditions is eligible and none of its
   callbacks is invoked by the scan. *)
Given == {given_nodes.given[k] : k \in 1..Len(given_nodes.given)}

\* What a condition of that kind answers on the page of this run.
TrueOnPage(f) == SyncOf(f) = "ready" /\ state.ready

AllTrue(conditions) == \A i \in 1..Len(conditions) : TrueOnPage(conditions[i])

Ran(id) == action_calls[id] > 0

\* The positions of the log where a callback of that kind of the node was invoked.
Positions(kind, id) == {k \in 1..Len(log) : log[k].kind = kind /\ log[k].node = id}

\* The node before this one in the chain has run, so the scan comes to it.
Reached(id) == ParentOf(id) = START \/ Ran(ParentOf(id))

\* The run is past the scan that decides about the frontier.
ScansOver == status \in {"DONE", "FAILED", "CRASHED"} \/ current_retries >= 1

C29_ConditionsShortCircuit ==
    \A g \in Given :
        /\ IsRegistered(g.name)
        /\ Ran(g.name) => AllTrue(g.condition.items)
        /\ (ScansOver /\ awaiting = NotAwaiting /\ Reached(g.name)
                /\ AllTrue(g.condition.items)) => Ran(g.name)
        /\ g.condition.items = <<>> => Positions("condition", g.name) = {}

\* What the code does: a node holds one condition or none, and is executed
\* exactly when the scan comes to it and that condition is absent or true.
C29_OneConditionDecides ==
    \A id \in Registered \ {START} :
        LET eligible == RunCondition(nodes[id].node, state) IN
        /\ Ran(id) => eligible /\ Reached(id)
        /\ (ScansOver /\ awaiting = NotAwaiting /\ Reached(id) /\ eligible) => Ran(id)
        /\ nodes[id].node.condition = "none" => Positions("condition", id) = {}

\* A caller gave N1 two conditions that are both true on the page, and the
\* constructor refused the node.
C29_ListRefused ==
    /\ given_nodes.error = "ValidationError"
    /\ state.ready
    /\ \E g \in Given : /\ g.name = NodeNames[1]
                        /\ g.condition = ListGiven(<<"ready", "async_ready">>)
                        /\ g.action.form = "callable"
    /\ ~IsRegistered(NodeNames[1])

(* C30: when a node is selected all of the actions it was given are executed,
   each once and in the order given, and all of them have completed before a
   condition of a child of the node is evaluated. *)
C30_ActionsInOrder ==
    \A g \in Given :
        /\ IsRegistered(g.name)
        /\ (Ran(g.name) /\ awaiting = NotAwaiting) =>
              /\ Cardinality(Positions("action", g.name)) = Len(g.action.items)
              /\ \A k \in Positions("action", g.name) : log[k].result = "done"
              /\ \A k \in Positions("action", g.name) :
                    \A c \in EdgeSet(g.name) :
                        \A j \in Positions("condition", c) : k < j

\* What the code does: a node holds one action; when the node is selected the
\* action is executed once and has completed before a condition of a child of
\* the node is evaluated.
C30_OneActionOnce ==
    \A id \in Registered \ {START} :
        /\ Cardinality(Positions("action", id)) = action_calls[id]
        /\ action_calls[id] <= 1
        /\ \A k \in Positions("action", id) :
              /\ log[k].result = "done"
              /\ \A c \in EdgeSet(id) : \A j \in Positions("condition", c) : k < j
        /\ (awaiting.at = "action" /\ current_edge_nodes[awaiting.index] = id) =>
              /\ Positions("action", id) = {}
              /\ \A c \in EdgeSet(id) : Positions("condition", c) = {}

\* A caller gave N1 a list of two actions, and the constructor refused the node.
C30_ListRefused ==
    /\ given_nodes.error = "ValidationError"
    /\ \E g \in Given : /\ g.name = NodeNames[1]
                        /\ g.action = ListGiven(<<"async_record", "record">>)
                        /\ g.condition = NoneGiven
    /\ ~IsRegistered(NodeNames[1])

----------------------------------------------------------------------------
(* The shape of the graph the builder makes *)

\* The registered nodes that list a node among their edge nodes.
Parents(id) == {p \in Registered : id \in EdgeSet(p)}

\* How many times a node is listed in the edge nodes of another.
TimesListed(p, id) ==
    Cardinality({i \in 1..Len(nodes[p].edge_nodes) : nodes[p].edge_nodes[i] = id})

\* The nodes reached from a set of nodes along at most n edges.
RECURSIVE ReachFrom(_, _)
ReachFrom(ids, n) ==
    IF n = 0 THEN ids
    ELSE ReachFrom(ids \cup UNION {EdgeSet(id) : id \in ids \cap Registered}, n - 1)

\* The nodes below a node: its edge nodes, theirs, and so on.
Descendants(id) == ReachFrom(EdgeSet(id), Cardinality(Registered))

\* The edges form a tree rooted at START.
IsTree ==
    /\ \A p \in Registered : EdgeSet(p) \subseteq Registered
    /\ \A id \in UserNodes :
          /\ Cardinality(Parents(id)) = 1
          /\ TimesListed(ParentOf(id), id) = 1
    /\ Parents(START) = {}
    /\ Registered = {START} \cup Descendants(START)
    /\ \A id \in Registered : id \notin Descendants(id)

\* A step keeps every registry entry and every edge, in its place.
NothingRemoved ==
    \A id \in DOMAIN nodes :
        /\ id \in DOMAIN nodes'
        /\ nodes'[id].node = nodes[id].node
        /\ IsPrefix(nodes[id].edge_nodes, nodes'[id].edge_nodes)

(* C31: after any sequence of builder calls, successful or failed, the edges
   form a tree rooted at START: every registered user node is listed once, by
   exactly one registered node, START is listed by none, every registered node
   is reached from START, no node is below itself; and no step removes a
   registry entry or an edge. *)
C31_EdgesFormTree ==
    /\ []IsTree
    /\ [][NothingRemoved]_vars

\* Two nodes were attached to START, the cursor was then put on a node that is
\* not in the graph, and a call made after that failed.
C31_Witness ==
    /\ status = "BUILD"
    /\ Len(nodes[START].edge_nodes) = 2
    /\ NodeId(graph_current_node) \notin Registered
    /\ call.op = "add_step"
    /\ call.outcome = "UnknownStartingNode"

\* The call that just ended tried to attach a registered node to itself or to
\* a node below it.
CycleAttempt ==
    /\ status = "BUILD" /\ status' = "BUILD"
    /\ call'.op = "add_edge_node"
    /\ call'.node \in UserNodes
    /\ call'.starting_node \in {call'.node} \cup Descendants(call'.node)

(* C32: the builder has no guard against cycles: add_edge_node with a
   registered node and a starting node that is the node itself or a node below
   it succeeds and lists the node among the edge nodes of that starting node
   (so that run() matches the node again and again). *)
C32_NoCycleGuard ==
    [][CycleAttempt
        => /\ call'.outcome = "ok"
           /\ call'.node \in {nodes'[call'.starting_node].edge_nodes[i] :
                                 i \in 1..Len(nodes'[call'.starting_node].edge_nodes)}]_vars

(* C32, amended: the duplicate check of add_edge_node guards against cycles:
   attaching a registered node to itself or to a node below it fails with the
   duplicate-node error and changes nothing, so no node is below itself, and
   run() executes the action of a node at most once. *)
C32_CycleAttemptRejected ==
    /\ [][CycleAttempt
           => /\ call'.outcome = "DuplicateNode"
              /\ nodes' = nodes
              /\ graph_current_node' = graph_current_node]_vars
    /\ [](\A id \in Registered : /\ id \notin Descendants(id)
                                 /\ action_calls[id] <= 1)

\* A node was offered again with a node below it as its starting node, and
\* was refused.
C32_Witness ==
    /\ status = "BUILD"
    /\ call.op = "add_edge_node"
    /\ call.node \in UserNodes
    /\ call.starting_node \in Descendants(call.node)
    /\ call.outcome = "DuplicateNode"

\* The graph whose cycle attempt was refused has been run to its end.
C32_WitnessRun ==
    /\ status = "DONE"
    /\ call.op = "add_edge_node"
    /\ call.node \in UserNodes
    /\ call.starting_node \in Descendants(call.node)
    /\ call.outcome = "DuplicateNode"
    /\ action_calls[call.starting_node] = 1

----------------------------------------------------------------------------
(* A second run() of the same graph *)

\* A run() that takes up the traversal where the builder cursor stands and
\* goes on counting retries.
run_again_from_cursor ==
    /\ status \in Terminal
    /\ first_run = NoFirstRun
    /\ first_run' = [status |-> status, error |-> error, log |-> log, nodes |-> nodes]
    /\ status' = "RUNNING"
    /\ current_node' = NoNode
    /\ current_edge_nodes' = nodes[NodeId(graph_current_node)].edge_nodes
    /\ UNCHANGED current_retries
    /\ error' = NoError
    /\ action_calls' = ZeroCalls
    /\ fallback_calls' = ZeroCalls
    /\ last_step' = "none"
    /\ log' = <<>>
    /\ awaiting' = NotAwaiting
    /\ UNCHANGED <<state, action_saw, builder_vars, default_max_retries, adapter, element,
                   given_nodes>>

\* Lines 162-165 when run() is called on a graph whose run() has ended: the
\* locals are made anew; the graph and its state dict are what the first run
\* left.  How the first run went is kept.
run_again ==
    /\ status \in Terminal
    /\ first_run = NoFirstRun
    /\ first_run' = [status |-> status, error |-> error, log |-> log, nodes |-> nodes]
    /\ status' = "RUNNING"
    /\ current_node' = NoNode
    /\ current_edge_nodes' = nodes[START].edge_nodes
    /\ current_retries' = 0
    /\ error' = NoError
    /\ action_calls' = ZeroCalls
    /\ fallback_calls' = ZeroCalls
    /\ last_step' = "none"
    /\ log' = <<>>
    /\ awaiting' = NotAwaiting
    /\ UNCHANGED <<state, action_saw, builder_vars, default_max_retries, adapter, element,
                   given_nodes>>

\* A caller that builds a chain of nodes whose callbacks can fail, runs it, and
\* runs it once more.
RerunNext ==
    \/ \E node \in RaiseNodes : add_edge_node(node, Omitted)
    \/ run_start
    \/ run_iteration
    \/ run_again

RerunSpec == Init /\ [][RerunNext]_vars

(* C33: run() never changes the graph: no step of run(), however the run ends,
   changes the registry, the edges or the builder cursor; and the traversal
   position and the retry counter are local to the call: a second run() starts
   with no current node, the edge nodes of START as its frontier and 0
   retries. *)
C33_RunKeepsGraph ==
    [][/\ InRun' => /\ nodes' = nodes
                    /\ graph_current_node' = graph_current_node
       /\ (status \in Terminal /\ status' = "RUNNING")
            => /\ current_node' = NoNode
               /\ current_edge_nodes' = nodes[START].edge_nodes
               /\ current_retries' = 0]_vars

\* The first run ended with the retry-exhaustion error after one fallback; the
\* second run, on the same graph, executed the first node again and ended with
\* the exception of a callback.
C33_Witness ==
    /\ first_run.status = "FAILED"
    /\ first_run.nodes = nodes
    /\ status = "RAISED"
    /\ action_calls[NodeNames[1]] = 1
    /\ NodeId(graph_current_node) # START

----------------------------------------------------------------------------
(* C34: an add_edge_node call that fails, because the node's name is registered,
   because the name is START, or because the starting node is not in the
   graph, leaves the registry, the edge nodes of every node and the builder
   cursor exactly as they were; so does a failing add_step, which goes through
   add_edge_node. *)
C34_FailedAddChangesNothing ==
    [][(status = "BUILD" /\ status' = "BUILD"
          /\ call'.op \in {"add_edge_node", "add_step"}
          /\ call'.outcome # "ok")
        => /\ call'.outcome \in ConstructionErrors \cup {"AttributeError"}
           /\ DOMAIN nodes' = DOMAIN nodes
           /\ \A id \in DOMAIN nodes : nodes'[id] = nodes[id]
           /\ graph_current_node' = graph_current_node]_vars

\* A node named START was refused by a graph that holds two user nodes, the
\* second below the first, with the second as the cursor.
C34_Witness ==
    /\ status = "BUILD"
    /\ call.op = "add_edge_node"
    /\ call.node = START
    /\ call.outcome \in ConstructionErrors
    /\ nodes[START].edge_nodes = <<NodeNames[1]>>
    /\ nodes[NodeNames[1]].edge_nodes = <<NodeNames[2]>>
    /\ NodeId(graph_current_node) = NodeNames[2]

----------------------------------------------------------------------------
\* The call that just ended attached to the cursor a node with a name that was
\* not in the graph.
FreshAtCursor ==
    /\ status = "BUILD" /\ status' = "BUILD"
    /\ call'.node \notin Registered
    /\ \/ call'.op = "add_step"
       \/ call'.op = "add_edge_node" /\ call'.starting_node = NoNode

(* C35: after any sequence of add_edge_node, add_step and set_current_node
   calls, successful or failed, the builder cursor is a node that is registered
   in the graph, and so an add_step or an add_edge_node without starting node
   that brings a name not yet in the graph succeeds. *)
C35_CursorAlwaysRegistered ==
    /\ [](status = "BUILD" => IsRegistered(NodeId(graph_current_node)))
    /\ [][FreshAtCursor => call'.outcome = "ok"]_vars

\* What the code does: only set_current_node takes the cursor out of the graph,
\* and while the cursor is outside, every call that attaches to it fails and
\* leaves it outside.
C35_CursorLeavesOnlyBySetCurrent ==
    [][/\ (IsRegistered(NodeId(graph_current_node)) /\ call'.op # "set_current_node")
            => NodeId(graph_current_node') \in DOMAIN nodes'
       /\ (FreshAtCursor /\ ~IsRegistered(NodeId(graph_current_node)))
            => /\ call'.outcome \in {"AttributeError", "UnknownStartingNode"}
               /\ graph_current_node' = graph_current_node
               /\ nodes' = nodes]_vars

\* An add_edge_node without starting node, for a new name, failed because the
\* cursor is not in the graph.
C35_FreshNodeRefused ==
    /\ status = "BUILD"
    /\ call.op = "add_edge_node"
    /\ call.starting_node = NoNode
    /\ call.node \notin Registered
    /\ call.outcome = "AttributeError"
    /\ ~IsRegistered(NodeId(graph_current_node))

----------------------------------------------------------------------------
(* A match at ceiling 0 *)

\* The iteration that just ended raised the retry-exhaustion error.
RaisedExhaustion == status = "RUNNING" /\ status' = "FAILED"

(* C36: the retry-exhaustion error is raised only in an iteration of run() in
   which no frontier node was eligible; an iteration in which a node matched
   and ran its action never raises it, whatever ceilings the nodes and the
   graph were given, 0 included. *)
C36_ExhaustionOnlyWithoutMatch ==
    [][RaisedExhaustion => /\ NoneEligible
                           /\ action_calls' = action_calls]_vars

\* What the code does: an iteration in which a node matched raises the
\* retry-exhaustion error exactly when the resolved ceiling of the matched node
\* is 0, right after the action of that node.
C36_MatchRaisesAtCeilingZero ==
    [][(status = "RUNNING" /\ ~NoneEligible /\ status' \in {"RUNNING", "DONE", "FAILED"})
         => /\ action_calls'[current_node'] = action_calls[current_node'] + 1
            /\ status' = "FAILED" <=> ResolvedCeiling(current_node') = Some(0)
            /\ status' = "FAILED" => /\ error'.node = current_node'
                                     /\ error'.max_retries = Some(0)
                                     /\ LastOf(log').kind = "action"]_vars

\* A node with ceiling 0 matched, ran its action, and run() ended with the
\* retry-exhaustion error before the node below it was looked at.
C36_RaisedAfterMatch ==
    /\ status = "FAILED"
    /\ last_step = "match_raise"
    /\ action_calls[current_node] = 1
    /\ nodes[current_node].node.fallback_action_max_retries = Some(0)
    /\ nodes[current_node].edge_nodes # <<>>
    /\ fallback_calls = ZeroCalls

----------------------------------------------------------------------------
\* run() waits on a node that has no fallback action and no frontier node is
\* eligible.
WaitingWithoutFallback ==
    /\ status = "RUNNING"
    /\ current_node # NoNode
    /\ nodes[current_node].node.fallback_action = "none"
    /\ NoneEligible

(* C37: a current node without a fallback action still consumes retries: a scan
   in which no frontier node matches adds one to the retry counter although no
   fallback callback is invoked and the state dict is untouched; with a finite
   resolved ceiling c the run fails, naming the node and c, once c such scans
   were counted, and with no ceiling the run goes on scanning and never ends. *)
C37_RetriesWithoutFallback ==
    /\ [][WaitingWithoutFallback =>
            IF BelowCeiling
            THEN /\ status' = "RUNNING"
                 /\ current_retries' = current_retries + 1
                 /\ current_node' = current_node
                 /\ current_edge_nodes' = current_edge_nodes
                 /\ state' = state
                 /\ \A entry \in NewEntries : entry.kind = "condition"
            ELSE /\ status' = "FAILED"
                 /\ current_retries = Val(ResolvedCeiling(current_node))
                 /\ error' = RetryError(current_node, ResolvedCeiling(current_node))
                 /\ \A entry \in NewEntries : entry.kind = "condition"]_vars
    /\ []((status = "FAILED" /\ last_step = "raise"
             /\ nodes[current_node].node.fallback_action = "none")
            => /\ current_retries = Val(ResolvedCeiling(current_node))
               /\ FallbackEntries(current_node) = {})

\* A node without fallback and with the largest ceiling was waited on until the
\* run failed: the retries were counted, no fallback callback was invoked.
C37_Witness ==
    /\ status = "FAILED"
    /\ last_step = "raise"
    /\ nodes[current_node].node.fallback_action = "none"
    /\ ResolvedCeiling(current_node) = Some(MaxCeil)
    /\ current_retries = MaxCeil
    /\ \A k \in 1..Len(log) : log[k].kind # "fallback"
    /\ state.ready = FALSE

----------------------------------------------------------------------------
(* The order of the callbacks within one scan *)

\* A caller that builds a tree of nodes that leave the ceiling to the graph,
\* attaching each node to the cursor or to any registered node, and runs it.
ScanNext ==
    \/ \E node \in ReplayNodes, starting_node \in StartingNodes :
           add_edge_node(node, starting_node)
    \/ run_start
    \/ run_iteration

ScanSpec == Init /\ [][ScanNext]_vars

\* The place of a node in the frontier.
PlaceOf(id) == CHOOSE i \in 1..Len(current_edge_nodes) : current_edge_nodes[i] = id

\* The callbacks the iteration that just ended invoked, in order.
Invoked == SubSeq(log', Len(log) + 1, Len(log'))

ConditionsInvoked == {k \in 1..Len(Invoked) : Invoked[k].kind = "condition"}
ActionsInvoked == {k \in 1..Len(Invoked) : Invoked[k].kind = "action"}

(* C38: in one scan the conditions of the frontier nodes are evaluated in
   insertion order, each at most once, and the evaluation stops at the first
   eligible node: only the last condition evaluated can be true, no condition
   of a node listed after the selected node is evaluated, every node listed
   before it had its condition evaluated, and the action of the selected node
   is the callback invoked right after its own condition. *)
C38_ScanStopsAtFirstEligible ==
    [][status = "RUNNING" =>
         /\ \A k \in ConditionsInvoked : Invoked[k].node \in Frontier
         /\ \A j, k \in ConditionsInvoked :
               j < k => /\ PlaceOf(Invoked[j].node) < PlaceOf(Invoked[k].node)
                        /\ ~Truthy(Invoked[j].result)
         /\ Cardinality(ActionsInvoked) <= 1
         /\ \A a \in ActionsInvoked :
               LET selected == Invoked[a].node IN
               /\ selected \in Frontier
               /\ \A k \in ConditionsInvoked :
                     k < a /\ PlaceOf(Invoked[k].node) <= PlaceOf(selected)
               /\ \A i \in 1..(PlaceOf(selected) - 1) :
                     \E k \in ConditionsInvoked : Invoked[k].node = current_edge_nodes[i]
               /\ nodes[selected].node.condition # "none" =>
                     /\ a > 1
                     /\ Invoked[a - 1] = LogEntry("condition", selected, "true")
      ]_vars

\* Two siblings wait for the same condition: after the fallback of their parent
\* made it true, the scan evaluated the condition of the first, ran its action,
\* and did not evaluate the condition of the second again.
C38_Witness ==
    /\ nodes[START].edge_nodes = <<NodeNames[1]>>
    /\ nodes[NodeNames[1]].edge_nodes = <<NodeNames[2], NodeNames[3]>>
    /\ log = <<LogEntry("action", NodeNames[1], "done"),
               LogEntry("condition", NodeNames[2], "false"),
               LogEntry("condition", NodeNames[3], "false"),
               LogEntry("fallback", NodeNames[1], "done"),
               LogEntry("condition", NodeNames[2], "true"),
               LogEntry("action", NodeNames[2], "done")>>

----------------------------------------------------------------------------
(* Termination of run() *)

\* The nodes of a caller that gives a node no ceiling or the largest one.
TermNodes ==
    {ActionNode(n, a, c, f, m) : n \in FreshNames, a \in ActionKinds, c \in CondKinds,
                                 f \in FallbackKinds, m \in {NoneInt, Some(MaxCeil)}}

TermNext ==
    \/ \E node \in TermNodes : add_edge_node(node, Omitted)
    \/ run_start
    \/ run_iteration

\* run() is a coroutine that is awaited to its end: while its loop can make
\* another iteration, it does.
TermSpec == Init /\ [][TermNext]_vars /\ WF_vars(run_iteration)

\* The graph has a finite default ceiling or every node has a ceiling of its own.
EveryWaitBounded ==
    \/ Finite(default_max_retries)
    \/ \A id \in UserNodes : Finite(nodes[id].node.fallback_action_max_retries)

\* The number of nodes on the longest way down from the root.
Depth ==
    LET lengths == {Cardinality(PathTo(id)) : id \in Registered}
    IN  CHOOSE d \in lengths : \A e \in lengths : e <= d

RECURSIVE SumOver(_, _)
SumOver(f, ids) ==
    IF ids = {} THEN 0
    ELSE LET id == CHOOSE x \in ids : TRUE IN f[id] + SumOver(f, ids \ {id})

(* C39: in a graph built through the builder API in which the graph has a
   finite default ceiling or every node has a finite ceiling, and whose
   callbacks return, run() terminates: once started it eventually ends, in DONE
   or with an exception; until then it has executed at most as many actions as
   the tree is deep, each node at most once, and has run the fallback of a node
   at most as many times as the resolved ceiling of that node. *)
C39_RunTerminates ==
    /\ (status = "RUNNING" /\ EveryWaitBounded) ~> (status \in Terminal)
    /\ []((InRun /\ EveryWaitBounded)
            => /\ SumOver(action_calls, Registered) <= Depth
               /\ \A id \in Registered :
                     /\ action_calls[id] <= 1
                     /\ fallback_calls[id] > 0 =>
                           /\ action_calls[id] = 1
                           /\ fallback_calls[id] <= Val(ResolvedCeiling(id)))

\* A chain of three nodes ran to DONE: every node was executed and the first
\* used up all the retries its ceiling allows before the second matched.
C39_Witness ==
    /\ status = "DONE"
    /\ EveryWaitBounded
    /\ Depth = 3
    /\ SumOver(action_calls, Registered) = 3
    /\ ResolvedCeiling(NodeNames[1]) = Some(MaxCeil)
    /\ fallback_calls[NodeNames[1]] = MaxCeil

====
